---- MODULE Spec2Model ----
(***************************************************************************)
(* Identity reconciliation and backfill of circuit_boards rows against the *)
(* traceability store (AssembledOnBackfill.py, DoubloeCheckFaNumbers.py),  *)
(* the duplicate scanners (UploadDatabase.py, ScanForDuplicates.py) and    *)
(* the helpers they share (coerce_datetime, _barcode_candidates).          *)
(*                                                                         *)
(* Text values are sequences of one-character strings, so that strip,      *)
(* upper, isdigit and split act on the characters.  NULL (Python None, SQL *)
(* NULL) is the one-element sequence <<"NULL">>, which is no text.         *)
(* Timestamps of the stores are integers yyyymmdd; NullDate is SQL NULL.   *)
(***************************************************************************)
EXTENDS Integers, Sequences, FiniteSets, TLC

VARIABLES
    \* ---- one backfill pass (main of the two backfill scripts)
    script,              \* "asm" (AssembledOnBackfill) or "fa" (DoubloeCheckFaNumbers)
    db,                  \* circuit_boards as committed: id -> row
    tx,                  \* circuit_boards as the pass's connection sees it
    trace,               \* the rows the ranked CTE of TRACE_SQL ranges over
    pc,                  \* position of main
    rows,                \* rows fetched by select_sql, after the date filter
    row_candidates,      \* id -> candidates, for the rows that have any
    barcodes,            \* all candidates, in row order
    uniq,                \* the resolver's de-duplicated list
    chunk_i,             \* number of chunks queried so far
    out,                 \* the resolver's out dict
    events,              \* the queries and sleeps of the resolver, in order
    lookup,              \* main's lookup: the dict the resolver returned
    row_i,               \* number of rows the update loop has handled
    updated,             \* counter 'updated'
    skipped_no_barcode,  \* counter 'skipped_no_barcode'
    skipped_other,       \* 'skipped_not_found' / 'skipped_no_timestamp'
    set_default_1900,    \* counter 'set_default_1900'
    trace_chunk_size,    \* TRACE_CHUNK_SIZE
    trace_pacing_seconds, \* TRACE_PACING_SECONDS, in milliseconds
    trace_conn,          \* "none", "open" or "closed"
    mysql_conn,          \* "none", "open" or "closed"
    exit_code,           \* -1 while running, else the process's exit code
    run,                 \* 1 for the first pass, 2 for the pass run right after it
    db0,                 \* circuit_boards as committed when the pass started
    failed_step,         \* "" or the step whose exception ended the pass
    only_process_newer_than_str, \* ONLY_PROCESS_NEWER_THAN_STR as configured
    log,                 \* the statements sent to the two stores, in order
    queried,             \* the IN lists of the trace queries, in order
    \* ---- a helper applied to one input
    fn,                  \* which helper
    arg,                 \* its input
    called,              \* whether it has returned
    res                  \* its result, once called

setupVars == <<trace_conn, mysql_conn, trace_pacing_seconds, only_process_newer_than_str>>
resolverVars == <<out, events>>
logVars == <<log, queried>>
passVars == <<script, db, tx, trace, pc, rows, row_candidates, barcodes, uniq,
              chunk_i, lookup, row_i, updated, skipped_no_barcode, skipped_other,
              set_default_1900, trace_chunk_size, exit_code, run, db0, failed_step,
              setupVars, resolverVars, logVars>>
fnVars == <<fn, arg, called, res>>
vars == <<passVars, fnVars>>

(***************************************************************************)
(* Text                                                                    *)
(***************************************************************************)
NULL == <<"NULL">>

\* Longest text the helper specifications draw.
MaxLen == 3

Whitespace == {" ", "\t"}
DigitChars == {"0", "1", "2", "3", "4", "5", "6", "7", "8", "9"}

\* str.upper, on the letters the model draws
UpperChar(c) ==
    CASE c = "c" -> "C"
      [] c = "m" -> "M"
      [] c = "x" -> "X"
      [] OTHER -> c

Upper(s) == [i \in 1..Len(s) |-> UpperChar(s[i])]

\* re.sub(r"\s+", "", s)
RemoveWhitespace(s) == SelectSeq(s, LAMBDA c : c \notin Whitespace)

RECURSIVE LStrip(_)
LStrip(s) == IF s # <<>> /\ Head(s) \in Whitespace THEN LStrip(Tail(s)) ELSE s

RECURSIVE RStrip(_)
RStrip(s) ==
    IF s # <<>> /\ s[Len(s)] \in Whitespace THEN RStrip(SubSeq(s, 1, Len(s) - 1)) ELSE s

\* str.strip
Strip(s) == LStrip(RStrip(s))

\* str.isdigit
IsDigit(s) == s # <<>> /\ \A i \in 1..Len(s) : s[i] \in DigitChars

\* str.startswith
StartsWith(s, p) == Len(s) >= Len(p) /\ SubSeq(s, 1, Len(p)) = p

\* "x in s" for a one-character x
Contains(s, c) == \E i \in 1..Len(s) : s[i] = c

\* Index of the first c in s (s contains c).
FirstIndex(s, c) == CHOOSE i \in 1..Len(s) : s[i] = c /\ \A j \in 1..(i - 1) : s[j] # c

\* s.split(c, 1)[1]
AfterFirst(s, c) == SubSeq(s, FirstIndex(s, c) + 1, Len(s))

\* s.split(c, 1)[0]
BeforeFirst(s, c) == SubSeq(s, 1, FirstIndex(s, c) - 1)

_norm_s(v) == IF v = NULL THEN <<>> ELSE Strip(v)

_clean_barcode_keeps_case(v) ==
    LET s == IF v = NULL THEN <<>> ELSE v
    IN  Strip(RemoveWhitespace(s))

_clean_barcode(v) ==
    LET s == IF v = NULL THEN <<>> ELSE v
    IN  Upper(Strip(RemoveWhitespace(s)))

_barcode_candidates(v) ==
    LET b == _clean_barcode(v)
    IN  IF b = <<>> THEN <<>>
        ELSE IF IsDigit(b) /\ ~StartsWith(b, <<"C", "M">>)
             THEN <<b, <<"C", "M">> \o b>>
             ELSE <<b>>

(***************************************************************************)
(* Helper specification: _barcode_candidates on one raw value              *)
(***************************************************************************)
RECURSIVE TextsUpTo(_, _)
TextsUpTo(chars, n) ==
    IF n = 0 THEN {<<>>}
    ELSE LET shorter == TextsUpTo(chars, n - 1)
         IN  shorter \cup {Append(s, c) : s \in shorter, c \in chars}

BarcodeChars == {" ", "\t", "c", "M", "x", "1", "7"}
RawBarcodes == TextsUpTo(BarcodeChars, MaxLen) \cup {NULL}

\* The pass is not running while a helper is checked on its own.
PassIdle ==
    /\ script = "none" /\ db = <<>> /\ tx = <<>> /\ trace = {} /\ pc = "none"
    /\ rows = <<>> /\ row_candidates = <<>> /\ barcodes = <<>> /\ uniq = <<>>
    /\ chunk_i = 0 /\ lookup = <<>> /\ row_i = 0 /\ updated = 0
    /\ skipped_no_barcode = 0 /\ skipped_other = 0 /\ set_default_1900 = 0
    /\ trace_chunk_size = 0 /\ exit_code = -1 /\ run = 0 /\ db0 = <<>>
    /\ failed_step = ""
    /\ trace_pacing_seconds = 0 /\ trace_conn = "none" /\ mysql_conn = "none"
    /\ out = <<>> /\ events = <<>>
    /\ only_process_newer_than_str = NULL /\ log = <<>> /\ queried = <<>>

InitCandidates ==
    /\ PassIdle
    /\ fn = "_barcode_candidates"
    /\ arg \in RawBarcodes
    /\ called = FALSE
    /\ res = <<>>

CallBarcodeCandidates ==
    /\ fn = "_barcode_candidates"
    /\ ~called
    /\ called' = TRUE
    /\ res' = _barcode_candidates(arg)
    /\ UNCHANGED <<passVars, fn, arg>>

NextCandidates == CallBarcodeCandidates

SpecCandidates == InitCandidates /\ [][NextCandidates]_vars

\* ---- C7 ----------------------------------------------------------------
\* The cleaned value the claim speaks of: every whitespace character removed,
\* every letter uppercased.
C7_Cleaned(v) ==
    LET s == IF v = NULL THEN <<>> ELSE v
        kept == SelectSeq(s, LAMBDA c : c # " " /\ c # "\t")
    IN  [i \in 1..Len(kept) |->
            IF kept[i] = "c" THEN "C"
            ELSE IF kept[i] = "m" THEN "M"
            ELSE IF kept[i] = "x" THEN "X"
            ELSE kept[i]]

C7_OnlyDigits(s) ==
    s # <<>> /\ \A i \in 1..Len(s) : s[i] \in {"0", "1", "2", "3", "4", "5", "6", "7", "8", "9"}

\* C7: _barcode_candidates returns the empty list when the cleaned value is
\* empty; otherwise the cleaned value first, followed by "CM" + cleaned exactly
\* when the cleaned value consists only of digits, and by nothing else.
C7_CandidateOrdering ==
    called =>
        LET b == C7_Cleaned(arg)
        IN  /\ (b = <<>>) => res = <<>>
            /\ (b # <<>> /\ C7_OnlyDigits(b)) => res = <<b, <<"C", "M">> \o b>>
            /\ (b # <<>> /\ ~C7_OnlyDigits(b)) => res = <<b>>

\* C7 witness: a purely numeric input with whitespace around it got both
\* candidates, and a lower-case prefixed one got just its cleaned form.
C7_Witness ==
    \/ called /\ arg = <<" ", "1", "7">> /\ res = << <<"1", "7">>, <<"C", "M", "1", "7">> >>
    \/ called /\ arg = <<"c", "M", "1">> /\ res = << <<"C", "M", "1">> >>

(***************************************************************************)
(* Date coercion.  A datetime is <<year, month, day, hour, minute, second>>;*)
(* None is the empty tuple.                                                *)
(***************************************************************************)
None == <<>>

Digits == <<"0", "1", "2", "3", "4", "5", "6", "7", "8", "9">>
DigitVal(c) == (CHOOSE i \in 1..10 : Digits[i] = c) - 1

RECURSIVE ToInt(_)
ToInt(s) == IF s = <<>> THEN 0 ELSE 10 * ToInt(SubSeq(s, 1, Len(s) - 1)) + DigitVal(s[Len(s)])

\* s.split(c)
RECURSIVE Split(_, _)
Split(s, c) ==
    IF ~Contains(s, c) THEN <<s>>
    ELSE <<BeforeFirst(s, c)>> \o Split(AfterFirst(s, c), c)

IsLeap(y) == (y % 4 = 0 /\ y % 100 # 0) \/ y % 400 = 0

DaysInMonth(y, m) ==
    IF m = 2 THEN (IF IsLeap(y) THEN 29 ELSE 28)
    ELSE IF m \in {4, 6, 9, 11} THEN 30 ELSE 31

\* datetime(y, m, d, H, M, S) raises ValueError outside these ranges.
ValidDateTime(y, m, d, H, M, S) ==
    /\ y \in 1..9999 /\ m \in 1..12 /\ d \in 1..DaysInMonth(y, m)
    /\ H \in 0..23 /\ M \in 0..59 /\ S \in 0..59

\* A directive that takes one or two digits (%m %d %H %M %S).
OneOrTwoDigits(f) == Len(f) \in {1, 2} /\ IsDigit(f)

\* The time of day after the date, for a format with the directives in
\* timeFmt ("HMS", "HM" or "" for none); <<>> when the text does not match.
ParseTime(t, timeFmt) ==
    LET f == Split(t, ":")
    IN  IF timeFmt = "" THEN (IF t = <<>> THEN <<0, 0, 0>> ELSE <<>>)
        ELSE IF timeFmt = "HM" /\ Len(f) = 2 /\ \A i \in 1..2 : OneOrTwoDigits(f[i])
             THEN <<ToInt(f[1]), ToInt(f[2]), 0>>
        ELSE IF timeFmt = "HMS" /\ Len(f) = 3 /\ \A i \in 1..3 : OneOrTwoDigits(f[i])
             THEN <<ToInt(f[1]), ToInt(f[2]), ToInt(f[3])>>
        ELSE <<>>

\* The text before the first blank and the text after the blanks that follow it.
DatePart(s) == IF Contains(s, " ") THEN BeforeFirst(s, " ") ELSE s
TimePart(s) == IF Contains(s, " ") THEN LStrip(AfterFirst(s, " ")) ELSE <<>>

\* datetime.strptime(s, fmt) for the formats of coerce_datetime: three date
\* fields in the order `first`, `second`, %Y, separated by sep, then the time
\* directives.  None stands for the ValueError.
Strptime(s, sep, monthFirst, timeFmt) ==
    LET f == Split(DatePart(s), sep)
        t == ParseTime(TimePart(s), timeFmt)
    IN  IF /\ Len(f) = 3
           /\ OneOrTwoDigits(f[1]) /\ OneOrTwoDigits(f[2])
           /\ Len(f[3]) = 4 /\ IsDigit(f[3])
           /\ t # <<>>
           /\ (timeFmt # "" => Contains(s, " "))
        THEN LET m == IF monthFirst THEN ToInt(f[1]) ELSE ToInt(f[2])
                 d == IF monthFirst THEN ToInt(f[2]) ELSE ToInt(f[1])
                 y == ToInt(f[3])
             IN  IF ValidDateTime(y, m, d, t[1], t[2], t[3])
                 THEN <<y, m, d, t[1], t[2], t[3]>>
                 ELSE None
        ELSE None

\* The time of day pandas reads after a date: none, H:M or H:M:S.
PdTime(t) ==
    IF t = <<>> THEN <<0, 0, 0>>
    ELSE IF ParseTime(t, "HMS") # <<>> THEN ParseTime(t, "HMS")
    ELSE ParseTime(t, "HM")

\* pd.to_datetime(s, dayfirst=..., errors="raise") on the texts the model
\* draws: ISO year-month-day whatever dayfirst says; otherwise three numeric
\* fields read in the preferred order and, when that is no date, in the other
\* order.  None stands for the exception.
PdToDatetime(s, dayfirst) ==
    LET d == DatePart(s)
        sep == IF Contains(d, "-") THEN "-" ELSE IF Contains(d, "/") THEN "/" ELSE "."
        f == Split(d, sep)
        t == PdTime(TimePart(s))
    IN  IF Len(f) # 3 \/ t = <<>> \/ \E i \in 1..3 : ~IsDigit(f[i]) THEN None
        ELSE IF Len(f[1]) = 4 /\ sep = "-" /\ Len(f[2]) = 2 /\ Len(f[3]) = 2
             THEN IF ValidDateTime(ToInt(f[1]), ToInt(f[2]), ToInt(f[3]), t[1], t[2], t[3])
                  THEN <<ToInt(f[1]), ToInt(f[2]), ToInt(f[3]), t[1], t[2], t[3]>>
                  ELSE None
        ELSE IF Len(f[3]) = 4 /\ OneOrTwoDigits(f[1]) /\ OneOrTwoDigits(f[2])
             THEN LET a == ToInt(f[1])
                      b == ToInt(f[2])
                      y == ToInt(f[3])
                      m1 == IF dayfirst THEN b ELSE a
                      d1 == IF dayfirst THEN a ELSE b
                  IN  IF ValidDateTime(y, m1, d1, t[1], t[2], t[3])
                      THEN <<y, m1, d1, t[1], t[2], t[3]>>
                      ELSE IF ValidDateTime(y, d1, m1, t[1], t[2], t[3])
                      THEN <<y, d1, m1, t[1], t[2], t[3]>>
                      ELSE None
        ELSE None

\* The day `n` days after year y, month m, day d.
RECURSIVE AddDays(_, _, _, _)
AddDays(y, m, d, n) ==
    LET yearLen == IF IsLeap(y) THEN 366 ELSE 365
        left == DaysInMonth(y, m) - d
    IN  IF m = 1 /\ d = 1 /\ n >= yearLen THEN AddDays(y + 1, 1, 1, n - yearLen)
        ELSE IF n <= left THEN <<y, m, d + n, 0, 0, 0>>
        ELSE IF m = 12 THEN AddDays(y + 1, 1, 1, n - left - 1)
        ELSE AddDays(y, m + 1, 1, n - left - 1)

\* A raw value: v.kind is "none", "str" (v.text), "datetime" (v.dt) or
\* "int" (v.n).
RawNone == [kind |-> "none", text |-> <<>>, dt |-> None, n |-> 0]
RawStr(s) == [kind |-> "str", text |-> s, dt |-> None, n |-> 0]
RawDatetime(d) == [kind |-> "datetime", text |-> <<>>, dt |-> d, n |-> 0]
RawInt(k) == [kind |-> "int", text |-> <<>>, dt |-> None, n |-> k]

_coerce_excel_serial(val) ==
    IF val.kind = "int" /\ val.n > 59 THEN AddDays(1899, 12, 30, val.n) ELSE None

\* The formats coerce_datetime tries, in its order.
FirstOf(results) ==
    IF \E i \in 1..Len(results) : results[i] # None
    THEN results[CHOOSE i \in 1..Len(results) :
                    results[i] # None /\ \A j \in 1..(i - 1) : results[j] = None]
    ELSE None

coerce_datetime_dayfirst(val) ==
    IF val.kind = "none" \/ (val.kind = "str" /\ Strip(val.text) = <<>>) THEN None
    ELSE IF val.kind = "datetime" THEN val.dt
    ELSE IF _coerce_excel_serial(val) # None THEN _coerce_excel_serial(val)
    ELSE LET s == Strip(val.text)
         IN  FirstOf(<<PdToDatetime(s, TRUE),
                       Strptime(s, "/", TRUE, "HMS"),
                       Strptime(s, "/", TRUE, "HM"),
                       Strptime(s, "/", TRUE, ""),
                       Strptime(s, ".", FALSE, "HMS"),
                       Strptime(s, ".", FALSE, "HM"),
                       Strptime(s, ".", FALSE, ""),
                       PdToDatetime(s, FALSE)>>)

coerce_datetime(val) ==
    IF val.kind = "none" \/ (val.kind = "str" /\ Strip(val.text) = <<>>) THEN None
    ELSE IF val.kind = "datetime" THEN val.dt
    ELSE IF _coerce_excel_serial(val) # None THEN _coerce_excel_serial(val)
    ELSE LET s == Strip(val.text)
         IN  FirstOf(<<Strptime(s, "/", TRUE, "HMS"),
                       Strptime(s, "/", TRUE, "HM"),
                       Strptime(s, "/", TRUE, ""),
                       Strptime(s, ".", FALSE, "HMS"),
                       Strptime(s, ".", FALSE, "HM"),
                       Strptime(s, ".", FALSE, ""),
                       PdToDatetime(s, FALSE),
                       PdToDatetime(s, TRUE)>>)

(***************************************************************************)
(* Helper specification: coerce_datetime on one raw value                  *)
(***************************************************************************)
\* Decimal text of n in 0..99, zero-padded to two digits when pad.
NumText(n, pad) ==
    IF n < 10 THEN (IF pad THEN <<"0", Digits[n + 1]>> ELSE <<Digits[n + 1]>>)
    ELSE <<Digits[(n \div 10) + 1], Digits[(n % 10) + 1]>>

\* Largest day-or-month number the drawn date texts use in both positions.
MaxField == 13

FieldNumbers == 0..MaxField \cup {29, 30, 31, 32}
YearTexts == {<<"2", "0", "2", "4">>, <<"2", "0", "2", "5">>}
TimeTexts == {<<>>, <<" ", "7", ":", "0", "5">>, <<" ", "1", "0", ":", "3", "0", ":", "5", "9">>,
              <<" ", "2", "4", ":", "0", "0">>}

DateTexts ==
    {NumText(a, pad) \o <<sep>> \o NumText(b, pad) \o <<sep>> \o y \o t :
        a \in FieldNumbers, b \in FieldNumbers, sep \in {"/", ".", "-"},
        pad \in BOOLEAN, y \in YearTexts, t \in {<<>>}}
    \cup
    {NumText(a, pad) \o <<sep>> \o NumText(b, pad) \o <<sep>> \o y \o t :
        a \in {3, 13}, b \in {4, 31}, sep \in {"/", ".", "-"},
        pad \in BOOLEAN, y \in YearTexts, t \in TimeTexts}
    \cup
    {y \o <<"-">> \o NumText(a, TRUE) \o <<"-">> \o NumText(b, TRUE) \o t :
        a \in {3, 13}, b \in {4, 31}, y \in YearTexts, t \in TimeTexts}
    \cup {<<>>, <<" ">>, <<"x">>, <<" ", "3", "/", "4", "/", "2", "0", "2", "5", " ">>}

RawDates ==
    {RawStr(s) : s \in DateTexts}
    \cup {RawNone, RawDatetime(<<2025, 3, 4, 0, 0, 0>>), RawInt(60), RawInt(61), RawInt(45737)}

InitDates ==
    /\ PassIdle
    /\ fn = "coerce_datetime"
    /\ arg \in RawDates
    /\ called = FALSE
    /\ res = None

CallCoerceDatetime ==
    /\ fn = "coerce_datetime"
    /\ ~called
    /\ called' = TRUE
    /\ res' = coerce_datetime(arg)
    /\ UNCHANGED <<passVars, fn, arg>>

NextDates == CallCoerceDatetime

SpecDates == InitDates /\ [][NextDates]_vars

\* ---- C10 ---------------------------------------------------------------
\* The text "a/b/yyyy" as the claim writes it: a and b with one or two digits.
C10_SlashTexts(a, b, y) ==
    {NumText(a, p) \o <<"/">> \o NumText(b, q) \o <<"/">> \o y : p \in BOOLEAN, q \in BOOLEAN}

\* C10: for every text a/b/yyyy with a and b both in 1..12, coerce_datetime
\* returns the date with month a and day b (month-first wins where day-first
\* would be a date too).
C10_DatePrecedence ==
    (called /\ arg.kind = "str") =>
        \A a \in 1..12, b \in 1..12, y \in YearTexts :
            arg.text \in C10_SlashTexts(a, b, y) => res = <<ToInt(y), a, b, 0, 0, 0>>

\* C10 witness: "03/04/2025" was coerced to the 4th of March.
C10_Witness ==
    /\ called
    /\ arg = RawStr(<<"0", "3", "/", "0", "4", "/", "2", "0", "2", "5">>)
    /\ res = <<2025, 3, 4, 0, 0, 0>>

(***************************************************************************)
(* Duplicate scanners: build_offending_numbers_df over the spreadsheet     *)
(* (UploadDatabase.py) and the query of ScanForDuplicates.py over          *)
(* circuit_boards.                                                         *)
(***************************************************************************)
\* Spreadsheet cells: NaN, a string, an int, or a float written as Python
\* prints it ("7.0", "7.5").
CellNaN == [kind |-> "nan", text |-> <<>>]
CellStr(s) == [kind |-> "str", text |-> s]
CellInt(s) == [kind |-> "int", text |-> s]
CellFloat(s) == [kind |-> "float", text |-> s]

\* float.is_integer, on the printed form
IsIntegerFloat(s) ==
    LET frac == AfterFirst(s, ".") IN \A i \in 1..Len(frac) : frac[i] = "0"

normalize_board_number(val) ==
    IF val.kind = "nan" THEN NULL
    ELSE IF val.kind = "str" THEN (IF Strip(val.text) = <<>> THEN NULL ELSE Strip(val.text))
    ELSE IF val.kind = "int" THEN val.text
    ELSE IF IsIntegerFloat(val.text) THEN BeforeFirst(val.text, ".")
    ELSE Strip(val.text)

\* Character order of str comparison, over the characters the model draws.
CharOrder == <<"\t", " ", ".", "0", "1", "2", "3", "4", "5", "6", "7", "8", "9",
               "C", "M", "X", "\\", "c", "m", "x">>
CharRank(c) == CHOOSE i \in 1..Len(CharOrder) : CharOrder[i] = c

RECURSIVE TextLess(_, _)
TextLess(a, b) ==
    IF b = <<>> THEN FALSE
    ELSE IF a = <<>> THEN TRUE
    ELSE IF Head(a) = Head(b) THEN TextLess(Tail(a), Tail(b))
    ELSE CharRank(Head(a)) < CharRank(Head(b))

Range(f) == {f[i] : i \in DOMAIN f}

\* Series.value_counts()[v]
CountIn(seq, v) == Cardinality({i \in 1..Len(seq) : seq[i] = v})

\* Series.dropna()
DropNa(seq) == SelectSeq(seq, LAMBDA v : v # NULL)

\* The elements of set S as a sequence in the strict total order before, the
\* set of the pairs <<y, x>> with y ahead of x.
SortBy(S, before) ==
    [i \in 1..Cardinality(S) |->
        CHOOSE x \in S : Cardinality({y \in S : <<y, x>> \in before}) = i - 1]

START_ROW == 7

\* reasons joined with ";"
RECURSIVE JoinReasons(_)
JoinReasons(reasons) ==
    IF reasons = <<>> THEN ""
    ELSE IF Len(reasons) = 1 THEN reasons[1]
    ELSE reasons[1] \o ";" \o JoinReasons(Tail(reasons))

PyReason_both_needs_duplicate(tc, bc, appears_in_both) ==
    LET reasons ==
            (IF tc > 1 THEN <<"duplicate_in_board_top">> ELSE <<>>)
            \o (IF bc > 1 THEN <<"duplicate_in_board_bottom">> ELSE <<>>)
            \o (IF appears_in_both /\ (tc > 1 \/ bc > 1)
                THEN <<"appears_in_both_columns">> ELSE <<>>)
    IN  IF reasons # <<>> THEN JoinReasons(reasons) ELSE "duplicate_across_union"

\* The reason of one offending number (records loop of build_offending_numbers_df).
PyReason(tc, bc, appears_in_both) ==
    LET reasons ==
            (IF tc > 1 THEN <<"duplicate_in_board_top">> ELSE <<>>)
            \o (IF bc > 1 THEN <<"duplicate_in_board_bottom">> ELSE <<>>)
            \o (IF appears_in_both THEN <<"appears_in_both_columns">> ELSE <<>>)
    IN  IF reasons # <<>> THEN JoinReasons(reasons) ELSE "duplicate_across_union"

BadNumbers_distinct_values(top_norm, bottom_norm) ==
    LET combined == DropNa(top_norm) \o DropNa(bottom_norm)
    IN  {v \in Range(combined) :
            Cardinality({v} \cap Range(top_norm)) + Cardinality({v} \cap Range(bottom_norm)) > 1}

\* bad_numbers: the values counted more than once in the concatenation of both
\* columns.
BadNumbers(top_norm, bottom_norm) ==
    LET combined == DropNa(top_norm) \o DropNa(bottom_norm)
    IN  {v \in Range(combined) : CountIn(combined, v) > 1}

\* Excel rows of the occurrences of n in one normalized column, ascending.
ExcelRows(norm, n) ==
    LET at == {i \in 1..Len(norm) : norm[i] = n}
        excel_rows == {START_ROW + (i - 1) : i \in at}
    IN  SortBy(excel_rows, {p \in excel_rows \X excel_rows : p[1] < p[2]})

build_offending_numbers_df(df) ==
    LET top_norm == [i \in 1..Len(df) |-> normalize_board_number(df[i].top)]
        bottom_norm == [i \in 1..Len(df) |-> normalize_board_number(df[i].bottom)]
        top_counts == DropNa(top_norm)
        bottom_counts == DropNa(bottom_norm)
        combined == top_counts \o bottom_counts
        bad_numbers == BadNumbers(top_norm, bottom_norm)
        intersection_set == Range(top_counts) \cap Range(bottom_counts)
        records ==
            {[number |-> n,
              top_count |-> CountIn(top_counts, n),
              bottom_count |-> CountIn(bottom_counts, n),
              total_count |-> CountIn(combined, n),
              appears_in_both |-> n \in intersection_set,
              reason |-> PyReason(CountIn(top_counts, n), CountIn(bottom_counts, n),
                                  n \in intersection_set),
              top_excel_rows |-> ExcelRows(top_norm, n),
              bottom_excel_rows |-> ExcelRows(bottom_norm, n)] : n \in bad_numbers}
    IN  SortBy(records,
               {p \in records \X records :
                   \/ p[1].total_count > p[2].total_count
                   \/ /\ p[1].total_count = p[2].total_count
                      /\ TextLess(p[1].number, p[2].number)})

\* MySQL TRIM(): leading and trailing spaces, and only spaces.
RECURSIVE SqlTrim(_)
SqlTrim(s) ==
    IF s # <<>> /\ Head(s) = " " THEN SqlTrim(Tail(s))
    ELSE IF s # <<>> /\ s[Len(s)] = " " THEN SqlTrim(SubSeq(s, 1, Len(s) - 1))
    ELSE s

\* col IS NOT NULL AND TRIM(col) <> ''
SqlNonEmpty(v) == v # NULL /\ SqlTrim(v) # <<>>

SqlReason_first_match_only(top_count, bottom_count) ==
    IF top_count > 1 THEN "duplicate_in_board_top"
    ELSE IF bottom_count > 1 THEN "duplicate_in_board_bottom"
    ELSE IF top_count > 0 /\ bottom_count > 0 THEN "appears_in_both_columns"
    ELSE "duplicate_across_union"

\* The CASE of the scanner's query.
SqlReason(top_count, bottom_count) ==
    IF top_count > 1 /\ bottom_count > 1
        THEN "duplicate_in_board_top;duplicate_in_board_bottom;appears_in_both_columns"
    ELSE IF top_count > 1 /\ bottom_count > 0
        THEN "duplicate_in_board_top;appears_in_both_columns"
    ELSE IF bottom_count > 1 /\ top_count > 0
        THEN "duplicate_in_board_bottom;appears_in_both_columns"
    ELSE IF top_count > 1 THEN "duplicate_in_board_top"
    ELSE IF bottom_count > 1 THEN "duplicate_in_board_bottom"
    ELSE IF top_count > 0 /\ bottom_count > 0 THEN "appears_in_both_columns"
    ELSE "duplicate_across_union"

\* CTE vals: one (id, src, num) per non-empty cell, UNION ALL.
SqlVals(table) ==
    {[id |-> i, src |-> "board_top", num |-> SqlTrim(table[i].board_top)] :
        i \in {j \in 1..Len(table) : SqlNonEmpty(table[j].board_top)}}
    \cup
    {[id |-> i, src |-> "board_bottom", num |-> SqlTrim(table[i].board_bottom)] :
        i \in {j \in 1..Len(table) : SqlNonEmpty(table[j].board_bottom)}}

SqlDups_more_than_two(table) ==
    LET vals == SqlVals(table)
    IN  {[num |-> n,
          total_count |-> Cardinality({v \in vals : v.num = n}),
          top_count |-> Cardinality({v \in vals : v.num = n /\ v.src = "board_top"}),
          bottom_count |-> Cardinality({v \in vals : v.num = n /\ v.src = "board_bottom"})] :
            n \in {m \in {v.num : v \in vals} : Cardinality({v \in vals : v.num = m}) > 2}}

\* CTE dups: GROUP BY num HAVING COUNT(*) > 1.
SqlDups(table) ==
    LET vals == SqlVals(table)
    IN  {[num |-> n,
          total_count |-> Cardinality({v \in vals : v.num = n}),
          top_count |-> Cardinality({v \in vals : v.num = n /\ v.src = "board_top"}),
          bottom_count |-> Cardinality({v \in vals : v.num = n /\ v.src = "board_bottom"})] :
            n \in {m \in {v.num : v \in vals} : Cardinality({v \in vals : v.num = m}) > 1}}

\* TRIM(col) = num, which is NULL for a NULL col.
SqlMatch(col, num) == IF col = NULL THEN "NULL" ELSE IF SqlTrim(col) = num THEN "1" ELSE "0"

\* The scanner's SELECT: circuit_boards joined with dups, ordered.
ScanForDuplicates(table) ==
    LET joined ==
            {[id |-> i,
              board_top |-> table[i].board_top,
              board_bottom |-> table[i].board_bottom,
              duplicate_number |-> d.num,
              total_count |-> d.total_count,
              top_count |-> d.top_count,
              bottom_count |-> d.bottom_count,
              match_top |-> SqlMatch(table[i].board_top, d.num),
              match_bottom |-> SqlMatch(table[i].board_bottom, d.num),
              reason |-> SqlReason(d.top_count, d.bottom_count)] :
                <<i, d>> \in {<<j, e>> \in (1..Len(table)) \X SqlDups(table) :
                                \/ SqlMatch(table[j].board_top, e.num) = "1"
                                \/ SqlMatch(table[j].board_bottom, e.num) = "1"}}
    IN  SortBy(joined,
               {p \in joined \X joined :
                   \/ p[1].total_count > p[2].total_count
                   \/ /\ p[1].total_count = p[2].total_count
                      /\ TextLess(p[1].duplicate_number, p[2].duplicate_number)
                   \/ /\ p[1].total_count = p[2].total_count
                      /\ p[1].duplicate_number = p[2].duplicate_number
                      /\ p[1].id < p[2].id})

(***************************************************************************)
(* Helper specification: one scan of one table by either scanner           *)
(***************************************************************************)
\* Number of rows of the scanned tables.
MaxScanRows == 2

SheetCells == {CellNaN, CellStr(<<"7">>), CellStr(<<"8", " ">>), CellInt(<<"7">>),
               CellFloat(<<"7", ".", "0">>), CellFloat(<<"7", ".", "5">>)}
SheetRows == [top : SheetCells, bottom : SheetCells]

ColumnTexts == {NULL, <<>>, <<"7">>, <<" ", "7">>, <<"8">>, <<"\t">>}
BoardRows == [board_top : ColumnTexts, board_bottom : ColumnTexts]

TablesOf(rowSet) == UNION {[1..n -> rowSet] : n \in 1..MaxScanRows}

InitScan ==
    /\ PassIdle
    /\ \/ fn = "build_offending_numbers_df" /\ arg \in TablesOf(SheetRows)
       \/ fn = "ScanForDuplicates" /\ arg \in TablesOf(BoardRows)
    /\ called = FALSE
    /\ res = <<>>

CallBuildOffendingNumbersDf ==
    /\ fn = "build_offending_numbers_df"
    /\ ~called
    /\ called' = TRUE
    /\ res' = build_offending_numbers_df(arg)
    /\ UNCHANGED <<passVars, fn, arg>>

CallScanForDuplicates ==
    /\ fn = "ScanForDuplicates"
    /\ ~called
    /\ called' = TRUE
    /\ res' = ScanForDuplicates(arg)
    /\ UNCHANGED <<passVars, fn, arg>>

NextScan == CallBuildOffendingNumbersDf \/ CallScanForDuplicates

SpecScan == InitScan /\ [][NextScan]_vars

\* The normalized values of column A (top) and column B (bottom) of the scanned
\* table, empty cells left out, one per occurrence.
ScanColumnA ==
    IF fn = "build_offending_numbers_df"
    THEN DropNa([i \in 1..Len(arg) |-> normalize_board_number(arg[i].top)])
    ELSE [i \in 1..Len(arg) |-> SqlTrim(arg[i].board_top)]
ScanColumnB ==
    IF fn = "build_offending_numbers_df"
    THEN DropNa([i \in 1..Len(arg) |-> normalize_board_number(arg[i].bottom)])
    ELSE [i \in 1..Len(arg) |-> SqlTrim(arg[i].board_bottom)]

\* Occurrences of value v among the non-empty values of a column.
Occurrences(column, v) ==
    Cardinality({i \in 1..Len(column) : column[i] # NULL /\ column[i] # <<>> /\ column[i] = v})

\* The value a reported record is about.
ReportedValue(rec) ==
    IF fn = "build_offending_numbers_df" THEN rec.number ELSE rec.duplicate_number

\* ---- C8 ----------------------------------------------------------------
\* The reason the claim gives for per-column counts (countA, countB).
C8_Reason(countA, countB) ==
    JoinReasons(
        (IF countA > 1 THEN <<"duplicate_in_board_top">> ELSE <<>>)
        \o (IF countB > 1 THEN <<"duplicate_in_board_bottom">> ELSE <<>>)
        \o (IF countA >= 1 /\ countB >= 1 THEN <<"appears_in_both_columns">> ELSE <<>>))

\* C8: every reported violation carries the per-column counts of its value and
\* the reason made of "duplicate in column A" iff countA > 1, "duplicate in
\* column B" iff countB > 1 and "appears in both columns" iff both counts are
\* at least 1; both scanners give the same reason for the same counts.
C8_DuplicateClassification ==
    /\ called =>
        \A k \in 1..Len(res) :
            LET countA == Occurrences(ScanColumnA, ReportedValue(res[k]))
                countB == Occurrences(ScanColumnB, ReportedValue(res[k]))
            IN  /\ res[k].top_count = countA
                /\ res[k].bottom_count = countB
                /\ res[k].reason = C8_Reason(countA, countB)
    /\ \A countA \in 0..MaxScanRows, countB \in 0..MaxScanRows :
        countA + countB > 1 =>
            PyReason(countA, countB, countA >= 1 /\ countB >= 1) = SqlReason(countA, countB)

\* C8 witness: a value twice in column A and once in column B was reported as
\* a duplicate in A that appears in both columns.
C8_Witness ==
    /\ called
    /\ \E k \in 1..Len(res) :
        /\ res[k].top_count = 2
        /\ res[k].bottom_count = 1
        /\ res[k].reason = "duplicate_in_board_top;appears_in_both_columns"

\* ---- C9 ----------------------------------------------------------------
\* C9: a value is reported iff it occurs more than once in the multiset union
\* of the normalized non-empty values of both columns.
C9_ViolationIffCountAboveOne ==
    called =>
        {ReportedValue(res[k]) : k \in 1..Len(res)}
            = {v \in Range(ScanColumnA) \cup Range(ScanColumnB) :
                  /\ v # NULL /\ v # <<>>
                  /\ Occurrences(ScanColumnA, v) + Occurrences(ScanColumnB, v) > 1}

\* C9 witness: one row holds the same value in both columns, no other row holds
\* it, and the value was reported with a total of two occurrences.
C9_Witness ==
    /\ called
    /\ \E k \in 1..Len(res) :
        /\ res[k].total_count = 2 /\ res[k].top_count = 1 /\ res[k].bottom_count = 1
        /\ \E i \in 1..Len(ScanColumnA) :
            /\ ScanColumnA[i] = ReportedValue(res[k])
            /\ Len(ScanColumnA) = Len(arg)
            /\ Len(ScanColumnB) = Len(arg)
            /\ ScanColumnB[i] = ReportedValue(res[k])

(***************************************************************************)
(* The backfill pass: main of AssembledOnBackfill.py (script "asm", target *)
(* board_assembled_on) and of DoubloeCheckFaNumbers.py (script "fa",       *)
(* targets board_fa_nummer and board_artikel_nummer).                      *)
(***************************************************************************)
\* SQL NULL / Python None of a timestamp column; it sorts below every date.
NullDate == 0
DEFAULT_ASSEMBLY_DATE == 19000101
TRACE_CHUNK_SIZE_DEFAULT == 200
\* float(os.getenv("TRACE_PACING_SECONDS", "0.25")), in milliseconds
TRACE_PACING_SECONDS_DEFAULT == 250

\* Exit code of the interpreter after an exception nothing catches.
UNCAUGHT_EXCEPTION_EXIT == 1
\* sys.exit(2) of get_mysql_connection
MYSQL_CONNECT_EXIT == 2
\* sys.exit(4) of _apply_row_date_filter
INVALID_CUTOFF_EXIT == 4

\* pymysql.connect(..., autocommit=False)
AUTOCOMMIT_on == TRUE
AUTOCOMMIT == FALSE

\* date part of a datetime as yyyymmdd
DateInt(dt) == IF dt = None THEN NullDate ELSE dt[1] * 10000 + dt[2] * 100 + dt[3]

ONLY_PROCESS_NEWER_THAN_STR == NULL
INCLUDE_ROWS_WITHOUT_DATE_WHEN_FILTERING == FALSE

\* col IS NULL OR TRIM(col) = ''
SqlEmpty(v) == v = NULL \/ SqlTrim(v) = <<>>

\* The WHERE clause of select_sql.
NeedsBackfill(s, r) ==
    IF s = "asm" THEN r.board_assembled_on = NullDate
    ELSE SqlEmpty(r.board_fa_nummer) \/ SqlEmpty(r.board_artikel_nummer)

\* cur.fetchall() of select_sql, in id order.
SelectRows(s, table) ==
    LET ids == {i \in DOMAIN table : NeedsBackfill(s, table[i])}
        sorted == SortBy(ids, {p \in ids \X ids : p[1] < p[2]})
    IN  [k \in 1..Len(sorted) |->
            [id |-> sorted[k],
             board_top |-> table[sorted[k]].board_top,
             board_bottom |-> table[sorted[k]].board_bottom,
             assembled_old |-> table[sorted[k]].board_assembled_on,
             fa_old |-> table[sorted[k]].board_fa_nummer,
             art_old |-> table[sorted[k]].board_artikel_nummer,
             dt |-> table[sorted[k]].board_erfasst_am]]

\* "if not ONLY_PROCESS_NEWER_THAN_STR": None and "" switch the filter off.
CutoffOff(cutoff_str) == cutoff_str = NULL \/ cutoff_str = <<>>

\* coerce_datetime of the configured cutoff is None: sys.exit(4).
CutoffInvalid(cutoff_str) ==
    ~CutoffOff(cutoff_str) /\ coerce_datetime(RawStr(cutoff_str)) = None

_apply_row_date_filter_strictly_newer(rs, cutoff_str, include) ==
    IF CutoffOff(cutoff_str) THEN rs
    ELSE LET cutoff == DateInt(coerce_datetime(RawStr(cutoff_str)))
         IN  SelectSeq(rs, LAMBDA r :
                 IF r.dt = NullDate THEN include ELSE r.dt > cutoff)

\* The rows kept for a cutoff that is off or valid; r.dt is coerce_datetime
\* of the row's date column, NullDate for None.
_apply_row_date_filter(rs, cutoff_str, include) ==
    IF CutoffOff(cutoff_str) THEN rs
    ELSE LET cutoff == DateInt(coerce_datetime(RawStr(cutoff_str)))
         IN  SelectSeq(rs, LAMBDA r :
                 IF r.dt = NullDate THEN include ELSE r.dt >= cutoff)

\* Candidates of a row: those of board_top, else those of board_bottom.
RowCands(r) ==
    IF _barcode_candidates(r.board_top) # <<>> THEN _barcode_candidates(r.board_top)
    ELSE _barcode_candidates(r.board_bottom)

RECURSIVE ConcatCands(_)
ConcatCands(rs) == IF rs = <<>> THEN <<>> ELSE RowCands(Head(rs)) \o ConcatCands(Tail(rs))

\* De-duplication of the resolver: non-empty stripped barcodes, first seen first.
RECURSIVE Dedup(_, _)
Dedup(bs, seen) ==
    IF bs = <<>> THEN <<>>
    ELSE LET bb == _norm_s(Head(bs))
         IN  IF bb = <<>> \/ bb \in seen THEN Dedup(Tail(bs), seen)
             ELSE <<bb>> \o Dedup(Tail(bs), seen \cup {bb})

\* max(1, int(chunk_size))
ChunkSize(size) == IF size < 1 THEN 1 ELSE size

\* total_chunks
TotalChunks(u, size) == (Len(u) + ChunkSize(size) - 1) \div ChunkSize(size)

SleepsAfter_every_chunk(s, u, size, pacing, i) == pacing > 0

\* The test that guards time.sleep after the i-th chunk (from 0).
SleepsAfter(s, u, size, pacing, i) ==
    /\ pacing > 0
    /\ IF s = "asm" THEN i < TotalChunks(u, size) - 1
       ELSE i < (Len(u) - 1) \div ChunkSize(size)

Chunk_size_not_clamped(u, size, i) ==
    LET from == i * size + 1
        to == IF from + ChunkSize(size) - 1 < Len(u) THEN from + ChunkSize(size) - 1 ELSE Len(u)
    IN  SubSeq(u, from, to)

\* The i-th chunk (from 0) that _chunked yields.
Chunk(u, size, i) ==
    LET from == i * ChunkSize(size) + 1
        to == IF from + ChunkSize(size) - 1 < Len(u) THEN from + ChunkSize(size) - 1 ELSE Len(u)
    IN  SubSeq(u, from, to)

SortsBefore_begin_ascending(q, r) ==
    \/ q.EndDate > r.EndDate
    \/ q.EndDate = r.EndDate /\ q.BeginDate < r.BeginDate
    \/ q.EndDate = r.EndDate /\ q.BeginDate = r.BeginDate /\ q.Id > r.Id

\* ORDER BY td.EndDate DESC, td.BeginDate DESC, td.Id DESC
SortsBefore(q, r) ==
    \/ q.EndDate > r.EndDate
    \/ q.EndDate = r.EndDate /\ q.BeginDate > r.BeginDate
    \/ q.EndDate = r.EndDate /\ q.BeginDate = r.BeginDate /\ q.Id > r.Id

\* ROW_NUMBER() OVER (PARTITION BY tp.Barcode ORDER BY ...)
RowNumber(store, r) ==
    1 + Cardinality({q \in store : q.Barcode = r.Barcode /\ SortsBefore(q, r)})

\* TRACE_SQL for one chunk: the rows of rank 1 among those whose barcode is in
\* the IN list.
TraceQuery(store, chunk) ==
    LET ranked == {r \in store : r.Barcode \in Range(chunk)}
    IN  {r \in ranked : RowNumber(ranked, r) = 1}

_strip_before_backslash(v) ==
    LET t == Strip(v)
    IN  IF Contains(t, "\\") THEN Strip(AfterFirst(t, "\\")) ELSE t

\* What the resolver stores for a fetched row.
AsmValue(r) == r.EndDate

FaValue(r) ==
    LET los == IF r.Losname = NULL THEN <<>> ELSE Strip(r.Losname)
        lei == IF r.Leiterplatte = NULL THEN <<>> ELSE Strip(r.Leiterplatte)
        cut == IF Contains(lei, "\\") THEN AfterFirst(lei, "\\") ELSE lei
    IN  <<_norm_s(los), _norm_s(cut)>>

ResolverValue(s, r) == IF s = "asm" THEN AsmValue(r) ELSE FaValue(r)

\* row_candidates.get(row_id) or []
CandsOf(rc, id) == IF id \in DOMAIN rc THEN rc[id] ELSE <<>>

\* The candidates of the list that the lookup resolves to something the loop
\* breaks on, in order.
Hits(s, cands, lk) ==
    SelectSeq(cands, LAMBDA bc :
        bc \in DOMAIN lk /\ (s = "asm" => lk[bc] # NullDate))

AsmRowWrite_skip_when_not_found(r, rc, lk) ==
    LET hits == Hits("asm", CandsOf(rc, r.id), lk)
    IN  IF r.assembled_old # NullDate \/ hits = <<>>
        THEN [write |-> FALSE, value |-> NullDate, default |-> 0, skipped |-> 0]
        ELSE [write |-> TRUE, value |-> lk[hits[1]], default |-> 0, skipped |-> 0]

\* One turn of the update loop of AssembledOnBackfill.main.
AsmRowWrite(r, rc, lk) ==
    LET hits == Hits("asm", CandsOf(rc, r.id), lk)
    IN  IF r.assembled_old # NullDate
        THEN [write |-> FALSE, value |-> NullDate, default |-> 0, skipped |-> 0]
        ELSE IF hits = <<>>
        THEN [write |-> TRUE, value |-> DEFAULT_ASSEMBLY_DATE, default |-> 1, skipped |-> 0]
        ELSE [write |-> TRUE, value |-> lk[hits[1]], default |-> 0, skipped |-> 0]

\* One turn of the update loop of DoubloeCheckFaNumbers.main.
FaRowWrite(r, rc, lk) ==
    LET hits == Hits("fa", CandsOf(rc, r.id), lk)
    IN  IF hits = <<>>
        THEN [write |-> FALSE, fa |-> <<>>, art |-> <<>>, skipped |-> 1]
        ELSE LET info == lk[hits[1]]
                 fa_old_s == _norm_s(r.fa_old)
                 art_old_s == _strip_before_backslash(_norm_s(r.art_old))
                 fa_new == IF fa_old_s # <<>> THEN fa_old_s ELSE _norm_s(info[1])
                 art_candidate == IF art_old_s # <<>> THEN art_old_s ELSE _norm_s(info[2])
                 art_new == _strip_before_backslash(art_candidate)
             IN  IF fa_new = <<>> /\ art_new = <<>>
                 THEN [write |-> FALSE, fa |-> <<>>, art |-> <<>>, skipped |-> 1]
                 ELSE [write |-> TRUE, fa |-> fa_new, art |-> art_new, skipped |-> 0]

\* Whether the turn for row r executes update_sql.
IssuesUpdate(s, r, rc, lk) ==
    IF s = "asm" THEN AsmRowWrite(r, rc, lk).write ELSE FaRowWrite(r, rc, lk).write

\* The field update_sql of script s sets (the first of the two, for "fa").
TargetField(s, row) ==
    IF s = "asm" THEN row.board_assembled_on ELSE row.board_fa_nummer

Updated_if_still_empty(s, table, r, rc, lk) ==
    IF s = "asm"
    THEN IF table[r.id].board_assembled_on # NullDate THEN table
         ELSE [table EXCEPT ![r.id].board_assembled_on = AsmRowWrite(r, rc, lk).value]
    ELSE IF ~SqlEmpty(table[r.id].board_fa_nummer) THEN table
         ELSE [table EXCEPT ![r.id].board_fa_nummer = FaRowWrite(r, rc, lk).fa,
                            ![r.id].board_artikel_nummer = FaRowWrite(r, rc, lk).art]

\* circuit_boards after update_sql for row r.
Updated(s, table, r, rc, lk) ==
    IF s = "asm"
    THEN [table EXCEPT ![r.id].board_assembled_on = AsmRowWrite(r, rc, lk).value]
    ELSE [table EXCEPT ![r.id].board_fa_nummer = FaRowWrite(r, rc, lk).fa,
                       ![r.id].board_artikel_nummer = FaRowWrite(r, rc, lk).art]

\* ---- what the pass starts from ------------------------------------------
\* Rows of circuit_boards, trace rows per store, passes run in succession.
MaxRows == 2
MaxTraceRows == 2
MaxRuns == 2

BoardRow(top, bottom, assembled, fa, art) ==
    [board_top |-> top, board_bottom |-> bottom, board_assembled_on |-> assembled,
     board_fa_nummer |-> fa, board_artikel_nummer |-> art, board_erfasst_am |-> 20250101]

\* <<board_top, board_bottom>>: "7" is in the trace store as "CM7", " 8" as
\* "8", "x" is not.
IdentifierPairs ==
    {<< <<"7">>, <<>> >>, << <<"x">>, <<" ", "8">> >>, << <<"x">>, <<>> >>,
     << <<>>, <<" ", "8">> >>, << <<>>, <<>> >>}

\* Rows as the assembled-on pass can find them: not assembled yet, and one
\* that is.
AsmBoardRows ==
    {BoardRow(p[1], p[2], NullDate, NULL, NULL) : p \in IdentifierPairs}
    \cup {BoardRow(<<"7">>, <<" ", "8">>, 20250105, NULL, NULL)}

\* Rows as the FA/Artikel pass can find them: both fields missing, one of them
\* missing, and one row that misses neither.
FaBoardRows ==
    {BoardRow(p[1], p[2], NullDate, NULL, NULL) : p \in IdentifierPairs}
    \cup {BoardRow(p[1], p[2], NullDate, f[1], f[2]) :
            p \in {<< <<"7">>, <<>> >>, << <<>>, <<" ", "8">> >>},
            f \in {<< <<"F", " ">>, NULL >>, << NULL, <<"V", "\\", "A">> >>}}
    \cup {BoardRow(<<"7">>, <<" ", "8">>, NullDate, <<"F", " ">>, <<"V", "\\", "A">>)}

TraceRow(barcode, end, begin, id, los, lei) ==
    [Barcode |-> barcode, EndDate |-> end, BeginDate |-> begin, Id |-> id,
     Losname |-> los, Leiterplatte |-> lei]

TracePool ==
    {TraceRow(<<"C", "M", "7">>, 20250102, 20250101, 1, <<"L", "1">>, <<"V", "\\", "A", "\\", "B">>),
     TraceRow(<<"C", "M", "7">>, 20250103, 20250101, 2, NULL, <<"B", " ">>),
     TraceRow(<<"8">>, NullDate, 20250101, 3, <<"L", "2">>, NULL),
     TraceRow(<<"8">>, 20250102, 20250101, 4, <<" ", "L", "3">>, <<"A">>)}

SubsetsUpTo(S, n) == {T \in SUBSET S : Cardinality(T) <= n}

ChunkSizes == {1, TRACE_CHUNK_SIZE_DEFAULT}

\* A fresh process at the top of main.
PassStart ==
    /\ pc = "main"
    /\ trace_conn = "none" /\ mysql_conn = "none"
    /\ out = <<>> /\ events = <<>> /\ log = <<>> /\ queried = <<>>
    /\ rows = <<>> /\ row_candidates = <<>> /\ barcodes = <<>> /\ uniq = <<>>
    /\ chunk_i = 0 /\ lookup = <<>> /\ row_i = 0 /\ updated = 0
    /\ skipped_no_barcode = 0 /\ skipped_other = 0 /\ set_default_1900 = 0
    /\ exit_code = -1 /\ failed_step = ""

FnIdle == fn = "none" /\ arg = <<>> /\ called = FALSE /\ res = <<>>

Init ==
    /\ script \in {"asm", "fa"}
    /\ db \in [1..MaxRows -> IF script = "asm" THEN AsmBoardRows ELSE FaBoardRows]
    /\ tx = db
    /\ db0 = db
    /\ trace \in SubsetsUpTo(TracePool, MaxTraceRows)
    /\ trace_chunk_size \in ChunkSizes
    /\ trace_pacing_seconds = TRACE_PACING_SECONDS_DEFAULT
    /\ only_process_newer_than_str = ONLY_PROCESS_NEWER_THAN_STR
    /\ run = 1
    /\ PassStart
    /\ FnIdle

\* ---- the steps of main --------------------------------------------------
\* except ...: mysql_conn.rollback(); sys.exit(3)
Fail(step) ==
    /\ log' = log \o <<step, "rollback">>
    /\ queried' = IF step = "query"
                  THEN Append(queried, Chunk(uniq, trace_chunk_size, chunk_i))
                  ELSE queried
    /\ tx' = db
    /\ pc' = "failed"
    /\ exit_code' = 3
    /\ failed_step' = step

\* trace_conn = get_trace_connection()
ConnectTrace ==
    /\ pc = "main"
    /\ trace_conn' = "open"
    /\ pc' = "trace_connected"
    /\ UNCHANGED <<script, db, tx, trace, rows, row_candidates, barcodes, uniq, chunk_i,
                   lookup, row_i, updated, skipped_no_barcode, skipped_other,
                   set_default_1900, trace_chunk_size, exit_code, run, db0, failed_step,
                   fnVars, log, queried, mysql_conn, trace_pacing_seconds,
                   only_process_newer_than_str, resolverVars>>

\* get_trace_connection raises (a setting is missing, or pyodbc.connect
\* fails); nothing catches it, and the interpreter ends with exit code 1.
ConnectTraceFails ==
    /\ pc = "main"
    /\ pc' = "exited"
    /\ exit_code' = UNCAUGHT_EXCEPTION_EXIT
    /\ failed_step' = "connect_trace"
    /\ UNCHANGED <<script, db, tx, trace, rows, row_candidates, barcodes, uniq, chunk_i,
                   lookup, row_i, updated, skipped_no_barcode, skipped_other,
                   set_default_1900, trace_chunk_size, run, db0, fnVars, log, queried, setupVars,
                   resolverVars>>

\* mysql_conn = get_mysql_connection()
ConnectMysql ==
    /\ pc = "trace_connected"
    /\ mysql_conn' = "open"
    /\ pc' = "start"
    /\ UNCHANGED <<script, db, tx, trace, rows, row_candidates, barcodes, uniq, chunk_i,
                   lookup, row_i, updated, skipped_no_barcode, skipped_other,
                   set_default_1900, trace_chunk_size, exit_code, run, db0, failed_step,
                   fnVars, log, queried, trace_conn, trace_pacing_seconds,
                   only_process_newer_than_str, resolverVars>>

\* pymysql.connect raises: get_mysql_connection prints and calls sys.exit(2),
\* before main's try statement is entered.
ConnectMysqlFails ==
    /\ pc = "trace_connected"
    /\ pc' = "exited"
    /\ exit_code' = MYSQL_CONNECT_EXIT
    /\ failed_step' = "connect_mysql"
    /\ UNCHANGED <<script, db, tx, trace, rows, row_candidates, barcodes, uniq, chunk_i,
                   lookup, row_i, updated, skipped_no_barcode, skipped_other,
                   set_default_1900, trace_chunk_size, run, db0, fnVars, log, queried, setupVars,
                   resolverVars>>

\* 1) select_sql and the date filter; return when nothing needs backfill.
LoadRows ==
    /\ pc = "start"
    /\ ~CutoffInvalid(only_process_newer_than_str)
    /\ rows' = _apply_row_date_filter(SelectRows(script, tx), only_process_newer_than_str,
                                      INCLUDE_ROWS_WITHOUT_DATE_WHEN_FILTERING)
    /\ IF rows' = <<>>
       THEN pc' = "done" /\ exit_code' = 0
       ELSE pc' = "loaded" /\ UNCHANGED exit_code
    /\ log' = Append(log, "select")
    /\ UNCHANGED queried
    /\ UNCHANGED <<script, db, tx, trace, row_candidates, barcodes, uniq, chunk_i, lookup,
                   row_i, updated, skipped_no_barcode, skipped_other, set_default_1900,
                   trace_chunk_size, run, db0, failed_step, fnVars, setupVars, resolverVars>>

LoadFails ==
    /\ pc = "start"
    /\ Fail("select")
    /\ UNCHANGED <<script, db, trace, rows, row_candidates, barcodes, uniq, chunk_i, lookup,
                   row_i, updated, skipped_no_barcode, skipped_other, set_default_1900,
                   trace_chunk_size, run, db0, fnVars, setupVars, resolverVars>>

InvalidCutoffExit_caught ==
    /\ pc = "start"
    /\ CutoffInvalid(only_process_newer_than_str)
    /\ log' = log \o <<"select", "rollback">>
    /\ UNCHANGED queried
    /\ tx' = db
    /\ pc' = "failed"
    /\ exit_code' = 3
    /\ failed_step' = "cutoff"
    /\ UNCHANGED <<script, db, trace, rows, row_candidates, barcodes, uniq, chunk_i, lookup,
                   row_i, updated, skipped_no_barcode, skipped_other, set_default_1900,
                   trace_chunk_size, run, db0, fnVars, setupVars, resolverVars>>

\* select_sql runs, then _apply_row_date_filter finds the cutoff invalid:
\* sys.exit(4) passes "except Exception" and reaches the finally clause.
InvalidCutoffExit ==
    /\ pc = "start"
    /\ CutoffInvalid(only_process_newer_than_str)
    /\ log' = Append(log, "select")
    /\ UNCHANGED queried
    /\ pc' = "exiting"
    /\ exit_code' = INVALID_CUTOFF_EXIT
    /\ failed_step' = "cutoff"
    /\ UNCHANGED <<script, db, tx, trace, rows, row_candidates, barcodes, uniq, chunk_i,
                   lookup, row_i, updated, skipped_no_barcode, skipped_other,
                   set_default_1900, trace_chunk_size, run, db0, fnVars, setupVars,
                   resolverVars>>

\* 2) candidates per row; return when no row has a barcode; else the resolver
\* de-duplicates them.
CollectCandidates ==
    /\ pc = "loaded"
    /\ LET with == {k \in 1..Len(rows) : RowCands(rows[k]) # <<>>}
       IN  /\ row_candidates' =
                [id \in {rows[k].id : k \in with} |->
                    RowCands(rows[CHOOSE k \in with : rows[k].id = id])]
           /\ skipped_no_barcode' = Len(rows) - Cardinality(with)
    /\ barcodes' = ConcatCands(rows)
    /\ IF barcodes' = <<>>
       THEN pc' = "done" /\ exit_code' = 0 /\ UNCHANGED uniq
       ELSE pc' = "resolving" /\ uniq' = Dedup(barcodes', {}) /\ UNCHANGED exit_code
    /\ log' = IF barcodes' = <<>> THEN log ELSE Append(log, "resolve")
    /\ UNCHANGED queried
    /\ UNCHANGED <<script, db, tx, trace, rows, chunk_i, lookup, row_i, updated,
                   skipped_other, set_default_1900, trace_chunk_size, run, db0,
                   failed_step, fnVars, setupVars, resolverVars>>

\* 3) one turn of the loop of the paced resolver: the query, the fetchall loop
\* and the sleep; the resolver returns out after the last turn.
QueryChunk ==
    /\ pc = "resolving"
    /\ chunk_i < TotalChunks(uniq, trace_chunk_size)
    /\ LET fetched == TraceQuery(trace, Chunk(uniq, trace_chunk_size, chunk_i))
           keys == {_norm_s(r.Barcode) : r \in fetched}
       IN  \E last \in [keys -> fetched] :
               /\ \A k \in keys : _norm_s(last[k].Barcode) = k
               /\ out' = [k \in DOMAIN out \cup keys |->
                             IF k \in keys THEN ResolverValue(script, last[k])
                             ELSE out[k]]
    /\ events' = events \o <<"query">> \o
                    (IF SleepsAfter(script, uniq, trace_chunk_size, trace_pacing_seconds, chunk_i)
                     THEN <<"sleep">> ELSE <<>>)
    /\ chunk_i' = chunk_i + 1
    /\ IF chunk_i' = TotalChunks(uniq, trace_chunk_size)
       THEN pc' = "merging" /\ lookup' = out'
       ELSE pc' = "resolving" /\ UNCHANGED lookup
    /\ log' = Append(log, "query")
    /\ queried' = Append(queried, Chunk(uniq, trace_chunk_size, chunk_i))
    /\ UNCHANGED <<script, db, tx, trace, rows, row_candidates, barcodes, uniq, row_i,
                   updated, skipped_no_barcode, skipped_other, set_default_1900,
                   trace_chunk_size, exit_code, run, db0, failed_step, fnVars, setupVars>>

QueryFails_best_effort ==
    /\ pc = "resolving"
    /\ chunk_i < TotalChunks(uniq, trace_chunk_size)
    /\ events' = Append(events, "query")
    /\ failed_step' = "query"
    /\ lookup' = out
    /\ pc' = "merging"
    /\ log' = Append(log, "query")
    /\ queried' = Append(queried, Chunk(uniq, trace_chunk_size, chunk_i))
    /\ UNCHANGED <<script, db, tx, trace, rows, row_candidates, barcodes, uniq, chunk_i,
                   row_i, updated, skipped_no_barcode, skipped_other, set_default_1900,
                   trace_chunk_size, exit_code, run, db0, fnVars, setupVars, out>>

\* cur.execute(sql, chunk) raises: the exception leaves the resolver and is
\* caught by main.
QueryFails ==
    /\ pc = "resolving"
    /\ chunk_i < TotalChunks(uniq, trace_chunk_size)
    /\ events' = Append(events, "query")
    /\ Fail("query")
    /\ UNCHANGED <<script, db, trace, rows, row_candidates, barcodes, uniq, chunk_i, lookup,
                   row_i, updated, skipped_no_barcode, skipped_other, set_default_1900,
                   trace_chunk_size, run, db0, fnVars, setupVars, out>>

\* 4) one turn of the update loop.
UpdateRow ==
    /\ pc = "merging"
    /\ row_i < Len(rows)
    /\ LET r == rows[row_i + 1]
       IN  IF IssuesUpdate(script, r, row_candidates, lookup)
           THEN /\ tx' = Updated(script, tx, r, row_candidates, lookup)
                /\ db' = IF AUTOCOMMIT THEN tx' ELSE db
                /\ updated' = updated + 1
                /\ set_default_1900' =
                     IF script = "asm"
                     THEN set_default_1900 + AsmRowWrite(r, row_candidates, lookup).default
                     ELSE set_default_1900
                /\ UNCHANGED skipped_other
           ELSE /\ skipped_other' =
                     IF script = "asm"
                     THEN skipped_other + AsmRowWrite(r, row_candidates, lookup).skipped
                     ELSE skipped_other + FaRowWrite(r, row_candidates, lookup).skipped
                /\ UNCHANGED <<db, tx, updated, set_default_1900>>
    /\ row_i' = row_i + 1
    /\ log' = IF IssuesUpdate(script, rows[row_i + 1], row_candidates, lookup)
              THEN Append(log, "update") ELSE log
    /\ UNCHANGED queried
    /\ UNCHANGED <<script, trace, pc, rows, row_candidates, barcodes, uniq, chunk_i, lookup,
                   skipped_no_barcode, trace_chunk_size, exit_code, run, db0, failed_step,
                   fnVars, setupVars, resolverVars>>

\* cur.execute(update_sql, ...) raises.
UpdateFails ==
    /\ pc = "merging"
    /\ row_i < Len(rows)
    /\ IssuesUpdate(script, rows[row_i + 1], row_candidates, lookup)
    /\ Fail("update")
    /\ UNCHANGED <<script, db, trace, rows, row_candidates, barcodes, uniq, chunk_i, lookup,
                   row_i, updated, skipped_no_barcode, skipped_other, set_default_1900,
                   trace_chunk_size, run, db0, fnVars, setupVars, resolverVars>>

Commit_inside_loop ==
    /\ pc = "merging"
    /\ row_i >= 1
    /\ log[Len(log)] # "commit"
    /\ db' = tx
    /\ log' = Append(log, "commit")
    /\ UNCHANGED queried
    /\ IF row_i = Len(rows) THEN pc' = "done" /\ exit_code' = 0
       ELSE UNCHANGED <<pc, exit_code>>
    /\ UNCHANGED <<script, tx, trace, rows, row_candidates, barcodes, uniq, chunk_i, lookup,
                   row_i, updated, skipped_no_barcode, skipped_other, set_default_1900,
                   trace_chunk_size, run, db0, failed_step, fnVars, setupVars, resolverVars>>

\* mysql_conn.commit() after the loop.
Commit ==
    /\ pc = "merging"
    /\ row_i = Len(rows)
    /\ db' = tx
    /\ pc' = "done"
    /\ exit_code' = 0
    /\ log' = Append(log, "commit")
    /\ UNCHANGED queried
    /\ UNCHANGED <<script, tx, trace, rows, row_candidates, barcodes, uniq, chunk_i, lookup,
                   row_i, updated, skipped_no_barcode, skipped_other, set_default_1900,
                   trace_chunk_size, run, db0, failed_step, fnVars, setupVars, resolverVars>>

\* finally: mysql_conn.close(); trace_conn.close(); then the process ends, with
\* the exit code of sys.exit or 0.
Finally ==
    /\ pc \in {"done", "failed", "exiting"}
    /\ mysql_conn' = "closed"
    /\ trace_conn' = "closed"
    /\ pc' = "exited"
    /\ UNCHANGED <<script, db, tx, trace, rows, row_candidates, barcodes, uniq, chunk_i,
                   lookup, row_i, updated, skipped_no_barcode, skipped_other,
                   set_default_1900, trace_chunk_size, exit_code, run, db0, failed_step,
                   fnVars, log, queried, trace_pacing_seconds,
                   only_process_newer_than_str, resolverVars>>

\* The script is started again right after a pass that ended normally, both
\* stores as that pass left them.  (After a failed pass the store is the one a
\* first pass starts from.)
RunAgain ==
    /\ pc = "exited"
    /\ exit_code = 0
    /\ run < MaxRuns
    /\ run' = run + 1
    /\ tx' = db
    /\ db0' = db
    /\ pc' = "main"
    /\ trace_conn' = "none" /\ mysql_conn' = "none"
    /\ out' = <<>> /\ events' = <<>>
    /\ rows' = <<>> /\ row_candidates' = <<>> /\ barcodes' = <<>> /\ uniq' = <<>>
    /\ chunk_i' = 0 /\ lookup' = <<>> /\ row_i' = 0 /\ updated' = 0
    /\ skipped_no_barcode' = 0 /\ skipped_other' = 0 /\ set_default_1900' = 0
    /\ exit_code' = -1 /\ failed_step' = ""
    /\ log' = <<>> /\ queried' = <<>>
    /\ UNCHANGED <<script, db, trace, trace_chunk_size, trace_pacing_seconds,
                   only_process_newer_than_str, fnVars>>

Next ==
    \/ ConnectTrace
    \/ ConnectTraceFails
    \/ ConnectMysql
    \/ ConnectMysqlFails
    \/ LoadRows
    \/ LoadFails
    \/ CollectCandidates
    \/ QueryChunk
    \/ QueryFails
    \/ UpdateRow
    \/ UpdateFails
    \/ Commit
    \/ Finally
    \/ RunAgain

Spec == Init /\ [][Next]_vars

\* ---- properties of the pass ----------------------------------------------
\* The rows the current pass loaded, by id.
LoadedIds == {rows[k].id : k \in 1..Len(rows)}

\* C1: every target field of a loaded row that is non-empty before the pass
\* holds, after the pass, the value it held before the pass.
C1_NeverOverwrite ==
    pc = "done" =>
        \A id \in LoadedIds :
            /\ (script = "asm" /\ db0[id].board_assembled_on # NullDate)
                    => db[id].board_assembled_on = db0[id].board_assembled_on
            /\ (script = "fa" /\ ~SqlEmpty(db0[id].board_fa_nummer))
                    => db[id].board_fa_nummer = db0[id].board_fa_nummer
            /\ (script = "fa" /\ ~SqlEmpty(db0[id].board_artikel_nummer))
                    => db[id].board_artikel_nummer = db0[id].board_artikel_nummer

\* C2: a pass run right after a pass, both stores otherwise unchanged, issues
\* no UPDATE: its "Updated rows" count is 0.
C2_SecondRunUpdatesNothing ==
    (run >= 2 /\ pc = "done") => updated = 0

\* C3: when an UPDATE of a pass fails, the operational store afterwards holds
\* for every row the values it held before the pass.
C3_RollbackRestoresStore ==
    (pc = "failed" /\ failed_step = "update") => db = db0

\* An UPDATE failed after earlier UPDATEs of the same pass had been executed.
C3_Witness ==
    /\ pc = "failed" /\ failed_step = "update"
    /\ updated >= 1
    /\ db = db0

\* A row has an identifier: board_top or board_bottom cleans to a barcode.
HasIdentifier(id) ==
    _clean_barcode(db0[id].board_top) # <<>> \/ _clean_barcode(db0[id].board_bottom) # <<>>

\* The trace rows recorded for any candidate of the identifier.
TraceRowsOf(raw) == {t \in trace : t.Barcode \in Range(_barcode_candidates(raw))}

\* C4: after a successful assembled-on pass, every loaded row that has an
\* identifier, none of whose identifiers has a trace row, has
\* board_assembled_on = 1900-01-01.
C4_SentinelDefault ==
    (script = "asm" /\ pc = "done") =>
        \A id \in LoadedIds :
            (/\ HasIdentifier(id)
             /\ TraceRowsOf(db0[id].board_top) = {}
             /\ TraceRowsOf(db0[id].board_bottom) = {})
                => db[id].board_assembled_on = DEFAULT_ASSEMBLY_DATE

\* A committed assembled-on pass over a row with an identifier the non-empty
\* trace store does not know.
C4_Witness ==
    /\ script = "asm" /\ pc = "done" /\ trace # {}
    /\ \E id \in LoadedIds :
        /\ HasIdentifier(id)
        /\ TraceRowsOf(db0[id].board_top) = {}
        /\ TraceRowsOf(db0[id].board_bottom) = {}
        /\ db0[id].board_assembled_on = NullDate
        /\ db[id].board_assembled_on = DEFAULT_ASSEMBLY_DATE

\* The resolution of the identifier carries no timestamp: no trace row of any
\* of its candidates has an EndDate.
TimestampAbsent(raw) == \A t \in TraceRowsOf(raw) : t.EndDate = NullDate

\* C5: the assembled-on pass writes 1900-01-01 to a row only if the timestamp
\* is absent from the resolution of board_top and from that of board_bottom.
C5_SentinelOnlyIfBothAbsent ==
    (script = "asm" /\ pc = "done") =>
        \A id \in LoadedIds :
            (/\ db0[id].board_assembled_on = NullDate
             /\ db[id].board_assembled_on = DEFAULT_ASSEMBLY_DATE)
                => (/\ TimestampAbsent(db0[id].board_top)
                    /\ TimestampAbsent(db0[id].board_bottom))

\* ---- the pass over a trace store with many rows per barcode ---------------
Digit(n) == Digits[n + 1]

\* Any rows of distinct Id, each for "CM7" or "8", with any end and begin
\* dates; Losname names the row.
RankedKeys ==
    {<<"C", "M", "7">>, <<"8">>} \X {NullDate, 20250102, 20250103} \X {20250101, 20250102}

RankedRow(id, k) == TraceRow(k[1], k[2], k[3], id, <<"L", Digit(id)>>, NULL)

RankedTraces ==
    UNION {{{RankedRow(id, f[id]) : id \in P} : f \in [P -> RankedKeys]} :
           P \in SUBSET (1..MaxTraceRows)}

InitRanked ==
    /\ script \in {"asm", "fa"}
    /\ db = [i \in 1..MaxRows |->
                IF i % 2 = 1 THEN BoardRow(<<"7">>, <<>>, NullDate, NULL, NULL)
                ELSE BoardRow(<<>>, <<" ", "8">>, NullDate, NULL, NULL)]
    /\ tx = db
    /\ db0 = db
    /\ trace \in RankedTraces
    /\ trace_chunk_size \in ChunkSizes
    /\ trace_pacing_seconds = TRACE_PACING_SECONDS_DEFAULT
    /\ only_process_newer_than_str = ONLY_PROCESS_NEWER_THAN_STR
    /\ run = 1
    /\ PassStart
    /\ FnIdle

SpecRanked == InitRanked /\ [][Next]_vars

\* (EndDate, BeginDate, Id) of t is lexicographically greater than that of q.
TupleGreater(t, q) ==
    \/ t.EndDate > q.EndDate
    \/ t.EndDate = q.EndDate /\ t.BeginDate > q.BeginDate
    \/ t.EndDate = q.EndDate /\ t.BeginDate = q.BeginDate /\ t.Id > q.Id

\* C6: once the resolver has returned, every queried identifier with trace
\* rows has exactly one record, that of the row with the lexicographically
\* greatest (EndDate, BeginDate, Id); an identifier without trace rows has
\* none.
C6_TieBreak ==
    pc = "merging" =>
        /\ DOMAIN lookup \subseteq Range(uniq)
        /\ \A b \in Range(uniq) :
            LET raw == {t \in trace : t.Barcode = b}
            IN  IF raw = {} THEN b \notin DOMAIN lookup
                ELSE /\ b \in DOMAIN lookup
                     /\ \E t \in raw :
                            /\ \A q \in raw \ {t} : TupleGreater(t, q)
                            /\ lookup[b] = ResolverValue(script, t)

\* The resolver has returned for an identifier with two trace rows of equal
\* EndDate and BeginDate, which Id alone tells apart.
C6_Witness ==
    /\ pc = "merging"
    /\ \E b \in DOMAIN lookup : \E t, q \in trace :
        /\ t.Barcode = b /\ q.Barcode = b /\ t # q
        /\ t.EndDate = q.EndDate /\ t.BeginDate = q.BeginDate

\* ---- absent and resolved-with-null -----------------------------------------
\* The resolver returned a record for a candidate of the row, and every record
\* it returned for the row's candidates has a null EndDate.
ResolvedWithNull(id) ==
    LET found == Range(CandsOf(row_candidates, id)) \cap DOMAIN lookup
    IN  found # {} /\ \A c \in found : lookup[c] = NullDate

\* C11: the mapping the resolver returns has an entry exactly for the queried
\* identifiers the trace store has a row for, and the merge step of the
\* assembled-on pass does not give a row resolved with a null EndDate the
\* outcome of an absent one, the default date 1900-01-01.
C11_NullIsNotAbsent ==
    (script = "asm" /\ pc = "done" /\ uniq # <<>>) =>
        /\ \A b \in Range(uniq) : (b \in DOMAIN lookup) <=> (\E t \in trace : t.Barcode = b)
        /\ \A id \in LoadedIds :
              ResolvedWithNull(id) => db[id].board_assembled_on # DEFAULT_ASSEMBLY_DATE

\* ---- a failing batch query ---------------------------------------------------
\* Number of batch queries issued so far.
QueriesIssued == Cardinality({i \in 1..Len(events) : events[i] = "query"})

\* C12: once the query of a batch has failed, main has no mapping from the
\* resolver, no row has been merged or updated, the failed query is the last
\* one issued, the pass has failed and the operational store is as it was
\* before the pass.
C12_BatchFailureFailsThePass ==
    failed_step = "query" =>
        /\ pc \in {"failed", "exited"}
        /\ exit_code = 3
        /\ lookup = <<>>
        /\ row_i = 0 /\ updated = 0
        /\ QueriesIssued = chunk_i + 1
        /\ events[Len(events)] = "query"
        /\ db = db0

\* The query of a batch after the first failed, when earlier batches had put
\* records into the resolver's dict and later batches were still to come.
C12_Witness ==
    /\ failed_step = "query"
    /\ chunk_i >= 1
    /\ out # <<>>
    /\ chunk_i + 1 < TotalChunks(uniq, trace_chunk_size)
    /\ pc = "exited"

\* ---- the pass over many identifiers, for the pacing of the resolver ---------
\* Rows of the paced tables, batch sizes drawn besides the default.
MaxPacedRows == 4
MaxPacedChunk == 3

\* Row i has the top identifier "i" (two candidates) or "xi" (one).
PacedRows(i) ==
    {BoardRow(top, <<>>, NullDate, NULL, NULL) : top \in {<<Digit(i)>>, <<"x", Digit(i)>>}}

PacedTables ==
    UNION {{t \in [1..n -> UNION {PacedRows(i) : i \in 1..n}] : \A i \in 1..n : t[i] \in PacedRows(i)} :
           n \in 1..MaxPacedRows}

PacingSeconds == {0, TRACE_PACING_SECONDS_DEFAULT}

InitPaced ==
    /\ script \in {"asm", "fa"}
    /\ db \in PacedTables
    /\ tx = db
    /\ db0 = db
    /\ trace \in {{}, {TraceRow(<<"C", "M", "1">>, 20250102, 20250101, 1, <<"L", "1">>, NULL)}}
    /\ trace_chunk_size \in 0..MaxPacedChunk \cup {TRACE_CHUNK_SIZE_DEFAULT}
    /\ trace_pacing_seconds \in PacingSeconds
    /\ only_process_newer_than_str = ONLY_PROCESS_NEWER_THAN_STR
    /\ run = 1
    /\ PassStart
    /\ FnIdle

SpecPaced == InitPaced /\ [][Next]_vars

\* ceil(n / c), for n >= 1 and c >= 1
CeilDiv(n, c) == CHOOSE q \in 1..n : (q - 1) * c < n /\ n <= q * c

\* query, sleep, query, ..., query with q queries
Alternating(q) == [i \in 1..(2 * q - 1) |-> IF i % 2 = 1 THEN "query" ELSE "sleep"]

\* C13: with a pacing interval above 0, a paced resolver that has returned
\* has issued, for n unique identifiers and batch size c, exactly ceil(n/c)
\* queries and ceil(n/c) - 1 sleeps, alternating from the first query to the
\* last; while it runs, a sleep has followed every query.
C13_Pacing ==
    (trace_pacing_seconds > 0 /\ uniq # <<>>) =>
        /\ pc \in {"merging", "done"} =>
              events = Alternating(CeilDiv(Len(uniq), ChunkSize(trace_chunk_size)))
        /\ (pc = "resolving" /\ chunk_i >= 1) =>
              events = Alternating(chunk_i) \o <<"sleep">>

\* The lot/board-type resolver has returned after three batches of two, two
\* and one identifiers.
C13_Witness ==
    /\ script = "fa" /\ pc = "merging"
    /\ trace_pacing_seconds > 0
    /\ Len(uniq) = 5 /\ trace_chunk_size = 2
    /\ events = <<"query", "sleep", "query", "sleep", "query">>

(***************************************************************************)
(* The upload path: fetch_trace_info_for_barcodes and                      *)
(* check_row_fa_and_board_number of UploadDatabase.py.                     *)
(***************************************************************************)
UPLOAD_CHUNK_SIZE == 1000

\* Barcodes per call, batch sizes drawn besides the one main passes.
MaxUploadBarcodes == 3
MaxUploadChunk == 2

\* uniq of fetch_trace_info_for_barcodes: first occurrences, nothing stripped.
RECURSIVE UploadDedup(_, _)
UploadDedup(bs, seen) ==
    IF bs = <<>> THEN <<>>
    ELSE IF Head(bs) \in seen THEN UploadDedup(Tail(bs), seen)
    ELSE <<Head(bs)>> \o UploadDedup(Tail(bs), seen \cup {Head(bs)})

\* (los, lei) as the upload path stores them: stripped strings, or None.
UploadValue(r) ==
    <<IF r.Losname = NULL THEN NULL ELSE Strip(r.Losname),
      IF r.Leiterplatte = NULL THEN NULL ELSE Strip(r.Leiterplatte)>>

UploadBarcodes == {<<"7">>, <<"8">>, <<"C", "M", "7">>}
UploadBarcodeLists == UNION {[1..n -> UploadBarcodes] : n \in 0..MaxUploadBarcodes}

InitUpload ==
    /\ script = "none" /\ db = <<>> /\ tx = <<>> /\ pc = "none"
    /\ rows = <<>> /\ row_candidates = <<>> /\ barcodes = <<>> /\ uniq = <<>>
    /\ chunk_i = 0 /\ lookup = <<>> /\ row_i = 0 /\ updated = 0
    /\ skipped_no_barcode = 0 /\ skipped_other = 0 /\ set_default_1900 = 0
    /\ exit_code = -1 /\ run = 0 /\ db0 = <<>> /\ failed_step = ""
    /\ trace_pacing_seconds = 0 /\ trace_conn = "open" /\ mysql_conn = "none"
    /\ out = <<>> /\ events = <<>>
    /\ only_process_newer_than_str = NULL /\ log = <<>> /\ queried = <<>>
    /\ trace \in SubsetsUpTo(TracePool, MaxTraceRows)
    /\ trace_chunk_size \in 1..MaxUploadChunk \cup {UPLOAD_CHUNK_SIZE}
    /\ fn = "fetch_trace_info_for_barcodes"
    /\ arg \in UploadBarcodeLists
    /\ called = FALSE
    /\ res = <<>>

\* The call up to the loop: return at once for no barcodes, else de-duplicate.
CallFetchTraceInfoForBarcodes ==
    /\ fn = "fetch_trace_info_for_barcodes" /\ ~called /\ pc = "none"
    /\ IF arg = <<>>
       THEN called' = TRUE /\ res' = out /\ pc' = "returned" /\ UNCHANGED uniq
       ELSE uniq' = UploadDedup(arg, {}) /\ pc' = "querying" /\ UNCHANGED <<called, res>>
    /\ UNCHANGED <<script, db, tx, trace, rows, row_candidates, barcodes, chunk_i, lookup,
                   row_i, updated, skipped_no_barcode, skipped_other, set_default_1900,
                   trace_chunk_size, exit_code, run, db0, failed_step, setupVars,
                   resolverVars, fn, arg, log, queried>>

\* One turn of the loop over _chunked(uniq, chunk_size): the query and the
\* fetchall loop; after the last turn the function returns out.
UploadQueryChunk ==
    /\ fn = "fetch_trace_info_for_barcodes" /\ pc = "querying"
    /\ chunk_i < TotalChunks(uniq, trace_chunk_size)
    /\ LET fetched == TraceQuery(trace, Chunk(uniq, trace_chunk_size, chunk_i))
           keys == {Strip(r.Barcode) : r \in fetched}
       IN  \E last \in [keys -> fetched] :
               /\ \A k \in keys : Strip(last[k].Barcode) = k
               /\ out' = [k \in DOMAIN out \cup keys |->
                             IF k \in keys THEN UploadValue(last[k]) ELSE out[k]]
    /\ events' = Append(events, "query")
    /\ chunk_i' = chunk_i + 1
    /\ IF chunk_i' = TotalChunks(uniq, trace_chunk_size)
       THEN called' = TRUE /\ res' = out' /\ pc' = "returned"
       ELSE UNCHANGED <<called, res, pc>>
    /\ UNCHANGED <<script, db, tx, trace, rows, row_candidates, barcodes, uniq, lookup,
                   row_i, updated, skipped_no_barcode, skipped_other, set_default_1900,
                   trace_chunk_size, exit_code, run, db0, failed_step, setupVars, fn, arg, log, queried>>

NextUpload == CallFetchTraceInfoForBarcodes \/ UploadQueryChunk

SpecUpload == InitUpload /\ [][NextUpload]_vars

\* C14: a pacing delay occurs between every two consecutive batch queries to
\* the traceability store.
C14_SleepBetweenQueries ==
    \A i \in 1..(Len(events) - 1) : events[i] = "query" => events[i + 1] = "sleep"

\* ---- connections -----------------------------------------------------------
\* C15: when the connection to either store cannot be established, the
\* backfill process ends with exit code 2.
C15_ConnectionFailureExitsWith2 ==
    failed_step \in {"connect_trace", "connect_mysql"} => (pc = "exited" /\ exit_code = 2)

\* C16: when the process has ended, no storage connection it opened is still
\* open.
C16_ConnectionsReleased ==
    pc = "exited" => (trace_conn # "open" /\ mysql_conn # "open")

\* ---- check_row_fa_and_board_number -------------------------------------------
\* trace_lookup.get(key) if key else None; None is <<>>, an info is a pair.
LookupGet(trace_lookup, key) ==
    IF key # <<>> /\ key \in DOMAIN trace_lookup THEN trace_lookup[key] ELSE <<>>

\* payload[field] after the assignment guarded by "value is not None and
\* _norm_s(value) != _norm_s(payload.get(field))".
FixField(old, value) ==
    IF value # NULL /\ _norm_s(value) # _norm_s(old) THEN _norm_s(value) ELSE old

check_row_fa_and_board_number_bottom_first(payload, trace_lookup) ==
    LET top_info == LookupGet(trace_lookup, _norm_s(payload.board_top))
        bottom_info == LookupGet(trace_lookup, _norm_s(payload.board_bottom))
        chosen == IF bottom_info # <<>> THEN bottom_info ELSE top_info
    IN  IF chosen = <<>> THEN payload
        ELSE [payload EXCEPT
                !.board_fa_nummer = FixField(payload.board_fa_nummer, chosen[1]),
                !.board_artikel_nummer = FixField(payload.board_artikel_nummer, chosen[2])]

check_row_fa_and_board_number(payload, trace_lookup) ==
    LET top == _norm_s(payload.board_top)
        bottom == _norm_s(payload.board_bottom)
        top_info == LookupGet(trace_lookup, top)
        bottom_info == LookupGet(trace_lookup, bottom)
        chosen == IF top_info # <<>> /\ bottom_info # <<>>
                  THEN (IF top_info # bottom_info THEN top_info ELSE top_info)
                  ELSE IF top_info # <<>> THEN top_info
                  ELSE IF bottom_info # <<>> THEN bottom_info
                  ELSE <<>>
    IN  IF chosen = <<>> THEN payload
        ELSE [payload EXCEPT
                !.board_fa_nummer = FixField(payload.board_fa_nummer, chosen[1]),
                !.board_artikel_nummer = FixField(payload.board_artikel_nummer, chosen[2])]

\* Payloads as row_to_payload hands them over: identifiers stripped, "" for a
\* missing one; fields stripped, None for a missing one.
Payloads ==
    [board_top : {<<>>, <<"7">>}, board_bottom : {<<>>, <<"8">>},
     board_fa_nummer : {NULL, <<"F">>, <<"L", "1">>},
     board_artikel_nummer : {NULL, <<"V">>}]

\* (los, lei) of a resolved barcode: stripped strings, or None.
TraceInfos ==
    {<< <<"L", "1">>, <<"B", "1">> >>, << <<"L", "2">>, <<"B", "2">> >>,
     << NULL, <<"B", "1">> >>, << <<"L", "1">>, NULL >>}

TraceLookups == UNION {[K -> TraceInfos] : K \in SUBSET {<<"7">>, <<"8">>}}

InitFill ==
    /\ PassIdle
    /\ fn = "check_row_fa_and_board_number"
    /\ arg \in [payload : Payloads, trace_lookup : TraceLookups]
    /\ called = FALSE
    /\ res = <<>>

CallCheckRowFaAndBoardNumber ==
    /\ fn = "check_row_fa_and_board_number"
    /\ ~called
    /\ called' = TRUE
    /\ res' = check_row_fa_and_board_number(arg.payload, arg.trace_lookup)
    /\ UNCHANGED <<passVars, fn, arg>>

NextFill == CallCheckRowFaAndBoardNumber

SpecFill == InitFill /\ [][NextFill]_vars

\* The lookup with the resolutions of the identifiers in K only.
Restrict(trace_lookup, K) == [k \in DOMAIN trace_lookup \cap K |-> trace_lookup[k]]

Resolves(trace_lookup, raw) ==
    _norm_s(raw) # <<>> /\ _norm_s(raw) \in DOMAIN trace_lookup

FieldEmpty(v) == _norm_s(v) = <<>>

\* C17: the call returns, and its result is the one it gives when only the top
\* identifier's resolution is known, whenever the top identifier resolves; the
\* one it gives when only the bottom identifier's resolution is known, when
\* the top does not resolve and the bottom does; the payload itself when
\* neither resolves.  An empty field is filled from that one resolution.
C17_SourcePriority ==
    (fn = "check_row_fa_and_board_number" /\ called) =>
        LET p == arg.payload
            lk == arg.trace_lookup
            only(raw) == Restrict(lk, {_norm_s(raw)})
            used == IF Resolves(lk, p.board_top) THEN lk[_norm_s(p.board_top)]
                    ELSE lk[_norm_s(p.board_bottom)]
        IN  IF Resolves(lk, p.board_top) \/ Resolves(lk, p.board_bottom)
            THEN /\ Resolves(lk, p.board_top) =>
                        res = check_row_fa_and_board_number(p, only(p.board_top))
                 /\ ~Resolves(lk, p.board_top) =>
                        res = check_row_fa_and_board_number(p, only(p.board_bottom))
                 /\ (FieldEmpty(p.board_fa_nummer) /\ used[1] # NULL)
                        => res.board_fa_nummer = used[1]
                 /\ (FieldEmpty(p.board_artikel_nummer) /\ used[2] # NULL)
                        => res.board_artikel_nummer = used[2]
            ELSE res = p

\* Both identifiers resolve, to different lots and board types, and the empty
\* fields of the row hold the top identifier's.
C17_Witness ==
    /\ fn = "check_row_fa_and_board_number" /\ called
    /\ Resolves(arg.trace_lookup, arg.payload.board_top)
    /\ Resolves(arg.trace_lookup, arg.payload.board_bottom)
    /\ arg.trace_lookup[<<"7">>] = << <<"L", "1">>, <<"B", "1">> >>
    /\ arg.trace_lookup[<<"8">>] = << <<"L", "2">>, <<"B", "2">> >>
    /\ arg.payload.board_fa_nummer = NULL /\ arg.payload.board_artikel_nummer = NULL
    /\ res.board_fa_nummer = <<"L", "1">> /\ res.board_artikel_nummer = <<"B", "1">>

\* C18: a lot or board-type field that is non-empty before the fill step holds
\* the same value after it, whatever the chosen trace resolution holds.
C18_FillOnlyIfEmpty ==
    (fn = "check_row_fa_and_board_number" /\ called) =>
        /\ ~FieldEmpty(arg.payload.board_fa_nummer)
              => res.board_fa_nummer = arg.payload.board_fa_nummer
        /\ ~FieldEmpty(arg.payload.board_artikel_nummer)
              => res.board_artikel_nummer = arg.payload.board_artikel_nummer

\* The board-type strings the trace store resolves the identifiers of row id
\* to: Leiterplatte of the first-ranked trace row of each candidate.
ResolvedBoardTypes(id) ==
    {t.Leiterplatte :
        t \in {r \in TraceRowsOf(db0[id].board_top) \cup TraceRowsOf(db0[id].board_bottom) :
                  RowNumber(trace, r) = 1 /\ r.Leiterplatte # NULL}}

\* The part of a string after its first backslash; the string when it has none.
AfterFirstBackslash(v) ==
    LET t == Strip(v)
    IN  IF Contains(t, "\\") THEN Strip(AfterFirst(t, "\\")) ELSE t

\* C19: after a committed lot/board-type pass, a loaded row whose board-type
\* field was empty and has been filled holds the part after the first
\* backslash of a board-type string resolved for one of its identifiers.
C19_BoardTypeSuffix ==
    (script = "fa" /\ pc = "done" /\ failed_step = "") =>
        \A id \in LoadedIds :
            (/\ _norm_s(db0[id].board_artikel_nummer) = <<>>
             /\ _norm_s(db[id].board_artikel_nummer) # <<>>)
                => \E v \in ResolvedBoardTypes(id) :
                      db[id].board_artikel_nummer = AfterFirstBackslash(v)

\* C20: after a pass that ended without error, every loaded row with neither a
\* top nor a bottom identifier holds what it held before the pass, and the
\* rows counted as skipped for lacking an identifier are exactly those rows.
C20_NoIdentifierRowSkipped ==
    (pc = "done" /\ failed_step = "" /\ rows # <<>>) =>
        /\ \A id \in LoadedIds : ~HasIdentifier(id) => db[id] = db0[id]
        /\ skipped_no_barcode = Cardinality({id \in LoadedIds : ~HasIdentifier(id)})

\* ---- _apply_row_date_filter ----------------------------------------------
\* Rows handed to one call of the filter.
MaxFilterRows == 3

\* Dates of the date column after coerce_datetime: none, before the cutoffs,
\* on them, after them.
FilterDates == {NullDate, 20241231, 20250101, 20250102}

FilterRowLists ==
    UNION {{[k \in 1..n |-> [id |-> k, dt |-> f[k]]] : f \in [1..n -> FilterDates]} :
              n \in 0..MaxFilterRows}

\* Off (None, ""), and two spellings of 2025-01-01.
FilterCutoffs ==
    {NULL, <<>>, <<"2", "0", "2", "5", "-", "0", "1", "-", "0", "1">>,
     <<"0", "1", ".", "0", "1", ".", "2", "0", "2", "5">>}

InitFilter ==
    /\ PassIdle
    /\ fn = "_apply_row_date_filter"
    /\ arg \in [rows : FilterRowLists, cutoff : FilterCutoffs, include : BOOLEAN]
    /\ called = FALSE
    /\ res = <<>>

CallApplyRowDateFilter ==
    /\ fn = "_apply_row_date_filter"
    /\ ~called
    /\ ~CutoffInvalid(arg.cutoff)
    /\ called' = TRUE
    /\ res' = _apply_row_date_filter(arg.rows, arg.cutoff, arg.include)
    /\ UNCHANGED <<passVars, fn, arg>>

NextFilter == CallApplyRowDateFilter

SpecFilter == InitFilter /\ [][NextFilter]_vars

\* The positions of the rows a cutoff on 2025-01-01 keeps.
KeptPositions(rs, include) ==
    {k \in 1..Len(rs) : IF rs[k].dt = NullDate THEN include ELSE rs[k].dt >= 20250101}

\* C22: with no cutoff the filter returns its input; with a cutoff it returns,
\* in their order, exactly the rows dated on or after the cutoff, and the
\* undated rows iff the include option is on.
C22_CutoffFilter ==
    (fn = "_apply_row_date_filter" /\ called) =>
        IF arg.cutoff \in {NULL, <<>>} THEN res = arg.rows
        ELSE LET keep == KeptPositions(arg.rows, arg.include)
             IN  /\ Len(res) = Cardinality(keep)
                 /\ \A j \in 1..Len(res) :
                       res[j] = arg.rows[CHOOSE k \in keep :
                                            Cardinality({i \in keep : i <= k}) = j]

\* A call with a cutoff and the include option on, over an undated row, a row
\* before the cutoff and a row on it: the first and the last are returned.
C22_Witness ==
    /\ fn = "_apply_row_date_filter" /\ called
    /\ arg.cutoff = <<"0", "1", ".", "0", "1", ".", "2", "0", "2", "5">>
    /\ arg.include
    /\ Len(arg.rows) = 3
    /\ arg.rows[1].dt = NullDate /\ arg.rows[2].dt = 20241231 /\ arg.rows[3].dt = 20250101
    /\ res = <<arg.rows[1], arg.rows[3]>>

\* ---- the pass with a cutoff configured -------------------------------------
\* Unparseable values and a valid one no row of the pool is older than.
CutoffSettings ==
    {<<"x">>, <<" ">>, <<"0", "1", ".", "0", "1", ".", "2", "0", "2", "5">>}

InitCutoff ==
    /\ script \in {"asm", "fa"}
    /\ db \in [1..MaxRows -> {BoardRow(<<"7">>, <<>>, NullDate, NULL, NULL),
                              BoardRow(<<>>, <<" ", "8">>, NullDate, NULL, NULL)}]
    /\ tx = db
    /\ db0 = db
    /\ trace \in SubsetsUpTo(TracePool, 1)
    /\ trace_chunk_size \in ChunkSizes
    /\ trace_pacing_seconds = TRACE_PACING_SECONDS_DEFAULT
    /\ only_process_newer_than_str \in CutoffSettings
    /\ run = 1
    /\ PassStart
    /\ FnIdle

NextCutoff == Next \/ InvalidCutoffExit

SpecCutoff == InitCutoff /\ [][NextCutoff]_vars

\* C23: with an unparseable cutoff no trace query and no UPDATE is ever sent
\* and nothing is written, and a pass whose connections and SELECT succeeded
\* ends with exit code 4 right after the SELECT.
C23_InvalidCutoffExits4 ==
    CutoffInvalid(only_process_newer_than_str) =>
        /\ \A i \in 1..Len(log) : log[i] \notin {"resolve", "query", "update", "commit"}
        /\ db = db0 /\ tx = db0
        /\ (pc = "exited" /\ failed_step \notin {"connect_trace", "connect_mysql", "select"})
              => (exit_code = 4 /\ log = <<"select">>)

\* The process has ended with exit code 4 after the SELECT alone, both
\* connections closed.
C23_Witness ==
    /\ CutoffInvalid(only_process_newer_than_str)
    /\ pc = "exited" /\ exit_code = 4
    /\ log = <<"select">>
    /\ trace_conn = "closed" /\ mysql_conn = "closed"

\* ---- the pass beside another writer --------------------------------------
\* What the other writer puts into the target field: a value no pass writes.
OtherValue(s) == IF s = "asm" THEN 20250109 ELSE <<"W">>

InitRace ==
    /\ script \in {"asm", "fa"}
    /\ db \in [1..MaxRows -> {BoardRow(<<"7">>, <<>>, NullDate, NULL, NULL),
                              BoardRow(<<>>, <<" ", "8">>, NullDate, NULL, NULL)}]
    /\ tx = db
    /\ db0 = db
    /\ trace \in SubsetsUpTo(TracePool, 1)
    /\ trace_chunk_size \in ChunkSizes
    /\ trace_pacing_seconds = TRACE_PACING_SECONDS_DEFAULT
    /\ only_process_newer_than_str = ONLY_PROCESS_NEWER_THAN_STR
    /\ run = 1
    /\ PassStart
    /\ FnIdle

\* Another process commits update_sql-like "UPDATE ... WHERE id = ..." on a
\* row the pass holds no lock on, between the pass's SELECT and its commit;
\* the pass's later UPDATE works on the row as committed.
OtherWrite ==
    /\ pc \in {"loaded", "resolving", "merging"}
    /\ \A i \in 1..Len(log) : log[i] # "other"
    /\ \E id \in DOMAIN db :
          /\ ~\E k \in 1..row_i :
                 rows[k].id = id /\ IssuesUpdate(script, rows[k], row_candidates, lookup)
          /\ db' = IF script = "asm"
                   THEN [db EXCEPT ![id].board_assembled_on = OtherValue(script)]
                   ELSE [db EXCEPT ![id].board_fa_nummer = OtherValue(script)]
          /\ tx' = [tx EXCEPT ![id] = db'[id]]
    /\ log' = Append(log, "other")
    /\ UNCHANGED queried
    /\ UNCHANGED <<script, trace, pc, rows, row_candidates, barcodes, uniq, chunk_i, lookup,
                   row_i, updated, skipped_no_barcode, skipped_other, set_default_1900,
                   trace_chunk_size, exit_code, run, db0, failed_step, fnVars, setupVars,
                   resolverVars>>

NextRace == Next \/ OtherWrite

SpecRace == InitRace /\ [][NextRace]_vars

InLog(op) == \E i \in 1..Len(log) : log[i] = op

\* C21: once a pass has committed, no row it issued an UPDATE for holds the
\* value another writer put into the target field between the pass's SELECT
\* and its commit: the pass's write has replaced it.
C21_LateWriteIsReplaced ==
    (InLog("commit") /\ InLog("other")) =>
        \A k \in 1..Len(rows) :
            IssuesUpdate(script, rows[k], row_candidates, lookup)
                => TargetField(script, db[rows[k].id]) # OtherValue(script)

\* A first pass has committed after the other writer wrote a non-empty value
\* to a row that was empty at the SELECT, and no row holds that value any more.
C21_Witness ==
    /\ run = 1 /\ InLog("commit") /\ InLog("other")
    /\ \A id \in DOMAIN db0 : TargetField(script, db0[id]) # OtherValue(script)
    /\ \A id \in DOMAIN db : TargetField(script, db[id]) # OtherValue(script)

\* The positions of op in the log.
Positions(op) == {i \in 1..Len(log) : log[i] = op}

\* C24: in every pass the SELECT precedes every trace query, the resolver is
\* called at most once, every trace query precedes every UPDATE, there is at
\* most one commit and it follows every UPDATE, and no UPDATE follows a
\* rollback.
C24_PhaseOrdering ==
    /\ \A q \in Positions("query") : \E l \in Positions("select") : l < q
    /\ \A q \in Positions("query") : \E l \in Positions("resolve") : l < q
    /\ Cardinality(Positions("select")) <= 1
    /\ Cardinality(Positions("resolve")) <= 1
    /\ \A q \in Positions("query"), u \in Positions("update") : q < u
    /\ Cardinality(Positions("commit")) <= 1
    /\ \A u \in Positions("update"), c \in Positions("commit") : u < c
    /\ \A u \in Positions("update"), r \in Positions("rollback") : u < r

\* A pass of two queries and two UPDATEs that has committed.
C24_Witness ==
    log = <<"select", "resolve", "query", "query", "update", "update", "commit">>

\* ---- the paced resolver on one input list --------------------------------
\* Barcodes handed to one call of the resolver, batch sizes besides the default.
MaxBatchInputs == 4
MaxBatchSize == 3

BatchBarcodes == {<<"7">>, <<" ", "7">>, <<"8">>, <<"9">>, <<" ">>}

BatchInputs == UNION {[1..n -> BatchBarcodes] : n \in 0..MaxBatchInputs}

\* main has both connections open and calls the resolver.
InitBatches ==
    /\ script \in {"asm", "fa"}
    /\ db = <<>> /\ tx = <<>> /\ db0 = <<>>
    /\ trace = {TraceRow(<<"8">>, 20250102, 20250101, 4, <<"L", "3">>, <<"A">>)}
    /\ pc = "resolver"
    /\ trace_conn = "open" /\ mysql_conn = "open"
    /\ out = <<>> /\ events = <<>> /\ log = <<>> /\ queried = <<>>
    /\ rows = <<>> /\ row_candidates = <<>> /\ uniq = <<>>
    /\ barcodes \in BatchInputs
    /\ chunk_i = 0 /\ lookup = <<>> /\ row_i = 0 /\ updated = 0
    /\ skipped_no_barcode = 0 /\ skipped_other = 0 /\ set_default_1900 = 0
    /\ exit_code = -1 /\ failed_step = ""
    /\ trace_chunk_size \in -1..MaxBatchSize \cup {TRACE_CHUNK_SIZE_DEFAULT}
    /\ trace_pacing_seconds = TRACE_PACING_SECONDS_DEFAULT
    /\ only_process_newer_than_str = ONLY_PROCESS_NEWER_THAN_STR
    /\ run = 1
    /\ FnIdle

\* The resolver up to its loop: return out for no barcode, else de-duplicate;
\* with nothing left the loop has no turn and out is returned.
CallPacedResolver ==
    /\ pc = "resolver"
    /\ uniq' = IF barcodes = <<>> THEN <<>> ELSE Dedup(barcodes, {})
    /\ log' = Append(log, "resolve")
    /\ IF uniq' = <<>> THEN pc' = "merging" /\ lookup' = out
       ELSE pc' = "resolving" /\ UNCHANGED lookup
    /\ UNCHANGED <<script, db, tx, trace, rows, row_candidates, barcodes, chunk_i, row_i,
                   updated, skipped_no_barcode, skipped_other, set_default_1900,
                   trace_chunk_size, exit_code, run, db0, failed_step, fnVars, setupVars,
                   resolverVars, queried>>

NextBatches == CallPacedResolver \/ QueryChunk \/ QueryFails

SpecBatches == InitBatches /\ [][NextBatches]_vars

RECURSIVE Flatten(_)
Flatten(ss) == IF ss = <<>> THEN <<>> ELSE Head(ss) \o Flatten(Tail(ss))

\* The distinct non-empty trimmed barcodes of bs, each at its first position.
FirstSeen(bs) ==
    LET firsts == {i \in 1..Len(bs) :
                      /\ Strip(bs[i]) # <<>>
                      /\ \A j \in 1..(i - 1) : Strip(bs[j]) # Strip(bs[i])}
    IN  [k \in 1..Cardinality(firsts) |->
            Strip(bs[CHOOSE i \in firsts : Cardinality({j \in firsts : j <= i}) = k])]

\* max(1, batchSize)
BatchLimit == IF trace_chunk_size < 1 THEN 1 ELSE trace_chunk_size

\* C25: the batches queried so far, concatenated, are a prefix of the distinct
\* non-empty trimmed barcodes in first-seen order, and all of them once the
\* resolver has returned; no batch is empty, every batch but the last of the
\* call has exactly max(1, batchSize) barcodes and the last at most that many.
C25_Batching ==
    (pc \in {"resolving", "merging", "failed"}) =>
        LET all == FirstSeen(barcodes)
            sent == Flatten(queried)
        IN  /\ Len(sent) <= Len(all) /\ sent = SubSeq(all, 1, Len(sent))
            /\ pc = "merging" => sent = all
            /\ \A b \in 1..Len(queried) :
                  /\ Len(queried[b]) >= 1
                  /\ Len(queried[b]) <= BatchLimit
                  /\ (b < Len(queried) \/ Len(sent) < Len(all)) => Len(queried[b]) = BatchLimit
            /\ \A i, j \in 1..Len(sent) : sent[i] = sent[j] => i = j

\* A call with a repeated and a blank barcode and batch size 0 has returned
\* after one query per distinct barcode.
C25_Witness ==
    /\ pc = "merging"
    /\ trace_chunk_size = 0
    /\ barcodes = << <<"7">>, <<" ", "7">>, <<" ">>, <<"8">> >>
    /\ queried = << << <<"7">> >>, << <<"8">> >> >>

\* ---- C26 ---------------------------------------------------------------
\* C26: no reported violation carries the catch-all reason, and neither
\* scanner's classification gives it for any pair of per-column counts whose
\* sum is above 1.
C26_CatchAllUnreachable ==
    /\ called => \A k \in 1..Len(res) : res[k].reason # "duplicate_across_union"
    /\ \A countA \in 0..(MaxScanRows + 1), countB \in 0..(MaxScanRows + 1) :
        countA + countB > 1 =>
            /\ countA > 1 \/ countB > 1 \/ (countA >= 1 /\ countB >= 1)
            /\ PyReason(countA, countB, countA >= 1 /\ countB >= 1) # "duplicate_across_union"
            /\ SqlReason(countA, countB) # "duplicate_across_union"

\* A value once in each column, the case no duplicate-in-column branch
\* covers, was reported as appearing in both columns.
C26_Witness ==
    /\ called
    /\ \E k \in 1..Len(res) :
        /\ res[k].top_count = 1
        /\ res[k].bottom_count = 1
        /\ res[k].total_count = 2
        /\ res[k].reason = "appears_in_both_columns"

\* C27: when a pass has committed, the counters 'updated', 'skipped (no
\* barcode)' and 'skipped (no trace data / no timestamp)' sum to the number
\* of loaded rows, and 'updated' is the number of UPDATEs sent.
C27_CounterAccounting ==
    (pc = "done" /\ InLog("commit")) =>
        /\ updated + skipped_no_barcode + skipped_other = Len(rows)
        /\ updated = Cardinality(Positions("update"))

(***************************************************************************)
(* UploadDatabase.main: pre-check, trace lookup, payloads, clear, upsert.  *)
(***************************************************************************)
\* Rows of the spreadsheet of one run.
MaxSheetRows == 2

\* The same number as text, as int and as float, another padded text, nothing.
UploadCells == {CellNaN, CellStr(<<"7">>), CellInt(<<"7">>), CellFloat(<<"7", ".", "0">>),
                CellStr(<<"8", " ">>)}

UploadSheets == UNION {[1..n -> [top : UploadCells, bottom : UploadCells]] : n \in 0..MaxSheetRows}

\* str() of what clean_value leaves in payload[col] for a board column: None
\* for NaN and blank text, the stripped text, the int or float itself.
clean_value(val) ==
    IF val.kind = "nan" THEN NULL
    ELSE IF val.kind = "str" THEN (IF Strip(val.text) = <<>> THEN NULL ELSE Strip(val.text))
    ELSE val.text

\* The dict fetch_trace_info_for_barcodes returns for a store and a list.
fetch_trace_info_for_barcodes(store, bs) ==
    LET fetched == TraceQuery(store, UploadDedup(bs, {}))
    IN  [k \in {Strip(r.Barcode) : r \in fetched} |->
            UploadValue(CHOOSE r \in fetched : Strip(r.Barcode) = k)]

\* The payload of a sheet row whose lot and board-type cells are empty.
row_to_payload(row, trace_lookup) ==
    check_row_fa_and_board_number(
        [board_top |-> IF clean_value(row.top) = NULL THEN <<>> ELSE clean_value(row.top),
         board_bottom |-> IF clean_value(row.bottom) = NULL THEN <<>>
                          ELSE clean_value(row.bottom),
         board_fa_nummer |-> NULL, board_artikel_nummer |-> NULL],
        trace_lookup)

\* all_barcodes = top_barcodes + bottom_barcodes
AllBarcodes(df) ==
    DropNa([i \in 1..Len(df) |-> normalize_board_number(df[i].top)])
    \o DropNa([i \in 1..Len(df) |-> normalize_board_number(df[i].bottom)])

InitUploadMain ==
    /\ script = "upload" /\ pc = "upload_main"
    /\ db \in {<<>>, <<[board_top |-> <<"5">>, board_bottom |-> <<>>,
                       board_fa_nummer |-> NULL, board_artikel_nummer |-> NULL]>>}
    /\ tx = db /\ db0 = db
    /\ trace \in {{}, {TraceRow(<<"7">>, 20250102, 20250101, 5, <<"L", "1">>, <<"B", "1">>),
                       TraceRow(<<"8">>, 20250102, 20250101, 4, <<" ", "L", "3">>, <<"A">>)}}
    /\ trace_conn = "none" /\ mysql_conn = "none"
    /\ out = <<>> /\ events = <<>> /\ log = <<>> /\ queried = <<>>
    /\ rows = <<>> /\ row_candidates = <<>> /\ barcodes = <<>> /\ uniq = <<>>
    /\ chunk_i = 0 /\ lookup = <<>> /\ row_i = 0 /\ updated = 0
    /\ skipped_no_barcode = 0 /\ skipped_other = 0 /\ set_default_1900 = 0
    /\ exit_code = -1 /\ failed_step = ""
    /\ trace_chunk_size = UPLOAD_CHUNK_SIZE
    /\ trace_pacing_seconds = 0
    /\ only_process_newer_than_str = NULL
    /\ run = 1
    /\ fn = "main" /\ arg \in UploadSheets /\ called = FALSE /\ res = <<>>

UploadPrepare_stops_on_violation ==
    /\ pc = "upload_main"
    /\ res' = build_offending_numbers_df(arg)
    /\ barcodes' = AllBarcodes(arg)
    /\ lookup' = fetch_trace_info_for_barcodes(trace, barcodes')
    /\ rows' = [i \in 1..Len(arg) |-> row_to_payload(arg[i], lookup')]
    /\ trace_conn' = IF barcodes' = <<>> THEN "none" ELSE "closed"
    /\ IF rows' = <<>> \/ res' # <<>>
       THEN pc' = "exited" /\ exit_code' = 0
       ELSE pc' = "prepared" /\ UNCHANGED exit_code
    /\ UNCHANGED <<script, db, tx, trace, row_candidates, uniq, chunk_i, row_i, updated,
                   skipped_no_barcode, skipped_other, set_default_1900, trace_chunk_size,
                   run, db0, failed_step, mysql_conn, trace_pacing_seconds,
                   only_process_newer_than_str, resolverVars, logVars, fn, arg, called>>

\* main up to get_connection: the pre-check (which only prints and writes a
\* CSV), the trace lookup of all barcodes, the payloads; return for no row.
UploadPrepare ==
    /\ pc = "upload_main"
    /\ res' = build_offending_numbers_df(arg)
    /\ barcodes' = AllBarcodes(arg)
    /\ lookup' = fetch_trace_info_for_barcodes(trace, barcodes')
    /\ rows' = [i \in 1..Len(arg) |-> row_to_payload(arg[i], lookup')]
    /\ trace_conn' = IF barcodes' = <<>> THEN "none" ELSE "closed"
    /\ IF rows' = <<>>
       THEN pc' = "exited" /\ exit_code' = 0
       ELSE pc' = "prepared" /\ UNCHANGED exit_code
    /\ UNCHANGED <<script, db, tx, trace, row_candidates, uniq, chunk_i, row_i, updated,
                   skipped_no_barcode, skipped_other, set_default_1900, trace_chunk_size,
                   run, db0, failed_step, mysql_conn, trace_pacing_seconds,
                   only_process_newer_than_str, resolverVars, logVars, fn, arg, called>>

UploadClear_not_committed ==
    /\ pc = "prepared"
    /\ mysql_conn' = "open"
    /\ tx' = <<>>
    /\ log' = Append(log, "clear")
    /\ pc' = "cleared"
    /\ UNCHANGED <<script, db, trace, rows, row_candidates, barcodes, uniq, chunk_i, lookup,
                   row_i, updated, skipped_no_barcode, skipped_other, set_default_1900,
                   trace_chunk_size, exit_code, run, db0, failed_step, fnVars, trace_conn,
                   trace_pacing_seconds, only_process_newer_than_str, resolverVars, queried>>

\* conn = get_connection(); clear_target_table(conn): TRUNCATE (or DELETE),
\* then conn.commit().
UploadClear ==
    /\ pc = "prepared"
    /\ mysql_conn' = "open"
    /\ tx' = <<>>
    /\ db' = tx'
    /\ log' = log \o <<"clear", "commit">>
    /\ pc' = "cleared"
    /\ UNCHANGED <<script, trace, rows, row_candidates, barcodes, uniq, chunk_i, lookup,
                   row_i, updated, skipped_no_barcode, skipped_other, set_default_1900,
                   trace_chunk_size, exit_code, run, db0, failed_step, fnVars, trace_conn,
                   trace_pacing_seconds, only_process_newer_than_str, resolverVars, queried>>

\* cur.executemany(sql, values) over all payloads into the cleared table, then
\* conn.commit().
Upsert ==
    /\ pc = "cleared"
    /\ tx' = tx \o rows
    /\ db' = tx'
    /\ updated' = Len(rows)
    /\ log' = log \o <<"upsert", "commit">>
    /\ pc' = "done"
    /\ exit_code' = 0
    /\ UNCHANGED <<script, trace, rows, row_candidates, barcodes, uniq, chunk_i, lookup,
                   row_i, skipped_no_barcode, skipped_other, set_default_1900,
                   trace_chunk_size, run, db0, failed_step, fnVars, setupVars,
                   resolverVars, queried>>

\* cur.executemany raises: conn.rollback(); sys.exit(3).
UpsertFails ==
    /\ pc = "cleared"
    /\ Fail("upsert")
    /\ UNCHANGED <<script, db, trace, rows, row_candidates, barcodes, uniq, chunk_i, lookup,
                   row_i, updated, skipped_no_barcode, skipped_other, set_default_1900,
                   trace_chunk_size, run, db0, fnVars, setupVars, resolverVars>>

NextUploadMain == UploadPrepare \/ UploadClear \/ Upsert \/ UpsertFails \/ Finally

SpecUploadMain == InitUploadMain /\ [][NextUploadMain]_vars

\* C28: when the upsert of an upload run has failed, the process ends with
\* exit code 3 and circuit_boards is committed empty, whatever it held before
\* the run: the clearing was committed on its own and is not rolled back.
C28_ClearIsCommittedAlone ==
    /\ (script = "upload" /\ pc \in {"cleared", "failed"}) => db = <<>>
    /\ (script = "upload" /\ failed_step = "upsert") =>
          /\ db = <<>> /\ tx = <<>>
          /\ exit_code = 3
          /\ log = <<"clear", "commit", "upsert", "rollback">>

\* The run ended with exit code 3 and the row the table held before it is gone.
C28_Witness ==
    /\ script = "upload" /\ pc = "exited" /\ failed_step = "upsert"
    /\ exit_code = 3
    /\ db0 # <<>> /\ db = <<>>

\* C29: an upload run whose pre-check found violations goes on as one that
\* found none: it clears the table, and when nothing fails it has upserted
\* one row per spreadsheet row, the rows with the reported numbers included.
C29_PrecheckOnlyReports ==
    (script = "upload" /\ res # <<>>) =>
        /\ pc \notin {"upload_main", "exited"} \/ InLog("clear") \/ failed_step # ""
        /\ (pc = "exited" /\ failed_step = "") =>
              /\ log = <<"clear", "commit", "upsert", "commit">>
              /\ Len(db) = Len(arg)
              /\ \A i \in 1..Len(arg) :
                    db[i].board_top = (IF clean_value(arg[i].top) = NULL THEN <<>>
                                       ELSE clean_value(arg[i].top))

\* A sheet with the same number at the top of both rows was reported and
\* written all the same.
C29_Witness ==
    /\ script = "upload" /\ pc = "exited" /\ exit_code = 0
    /\ \E k \in 1..Len(res) : res[k].number = <<"7">> /\ res[k].top_count = 2
    /\ Len(db) = 2
    /\ db[1].board_top = <<"7">> /\ db[2].board_top = <<"7">>

\* The key under which check_row_fa_and_board_number looks a cell up.
LookupKey(cell) == IF clean_value(cell) = NULL THEN <<>> ELSE _norm_s(clean_value(cell))

\* C30: in an upload run, for every non-empty top or bottom cell the key
\* looked up in the trace result is the key normalize_board_number made of
\* the cell, and a row whose top cell the trace store resolved with a lot
\* carries that lot.
C30_KeyConsistency ==
    (script = "upload" /\ pc # "upload_main") =>
        \A i \in 1..Len(arg) :
            /\ \A cell \in {arg[i].top, arg[i].bottom} :
                  normalize_board_number(cell) # NULL
                      => LookupKey(cell) = normalize_board_number(cell)
            /\ (/\ normalize_board_number(arg[i].top) # NULL
                /\ normalize_board_number(arg[i].top) \in DOMAIN lookup
                /\ lookup[normalize_board_number(arg[i].top)][1] # NULL)
                  => rows[i].board_fa_nummer = lookup[normalize_board_number(arg[i].top)][1]

====
